---- MODULE Spec2Model ----
(***************************************************************************)
(* becquerel/core/calibration.py: the Calibration class and the helper     *)
(* functions it is built from (_validate_domain_range, _eval_expression,   *)
(* _param_indices, _validate_expression, _check_points, _fit_expression).  *)
(*                                                                         *)
(* Numbers are integers of a small grid 0..MaxVal.  The default interval   *)
(* (0, 1e5) of the source is the interval from 0 to MaxVal - 1: the top    *)
(* of the grid stands for the numbers above 1e5.                           *)
(*                                                                         *)
(* An expression text is a sum of terms k * p[j1] * ... * v ** e, enough   *)
(* to write polynomials in x and their closed-form inverses in y.  Every   *)
(* operation returns a record whose field err names the exception it       *)
(* raised ("none" when it returned).                                       *)
(***************************************************************************)
EXTENDS Integers, Sequences, FiniteSets, Bags, TLC

VARIABLES
    expression,      \* Calibration._expression
    params,          \* Calibration._params
    inv_expression,  \* Calibration._inv_expression
    domain,          \* Calibration._domain
    range,           \* Calibration._range
    points_x,        \* Calibration._points_x
    points_y,        \* Calibration._points_y
    attrs,           \* Calibration._attrs
    last,            \* the last call made on the Calibration and its outcome
    history,         \* the pairs the successful add_points calls since set_points added
    symtable,        \* safe_eval.symtable: what the names p, x and y are bound to
    error,           \* safe_eval.error: the errors of the evaluation made last
    evals,           \* the calls of _eval_expression under way, each at its step
    _calpoints,      \* EnergyCalBase._calpoints
    _coeffs          \* EnergyCalBase._coeffs

vars == <<expression, params, inv_expression, domain, range,
          points_x, points_y, attrs, last, history,
          symtable, error, evals, _calpoints, _coeffs>>

\* the shared interpreter, the evaluations under way and the energy
\* calibration: what the operations of one Calibration, modelled with a
\* table of their own, leave alone
elsewhere == <<symtable, error, evals, _calpoints, _coeffs>>

fields == <<expression, params, inv_expression, domain, range,
            points_x, points_y, attrs>>

-----------------------------------------------------------------------------
(* Bounds of the model *)

MaxVal == 2

MaxPts == 2

Vals == 0..MaxVal

-----------------------------------------------------------------------------
(* Values *)

DEFAULT_DOMAIN == <<0, MaxVal - 1>>

DEFAULT_RANGE == <<0, MaxVal - 1>>

None == [terms |-> <<>>, style |-> "None", parses |-> FALSE]

\* An array-like argument: its dimension (0 for a scalar), the Python type
\* that holds it, and its elements, each a number v that is finite or not.
Arr(type, ndim, elems) == [type |-> type, ndim |-> ndim, elems |-> elems]

Num(v) == [v |-> v, fin |-> TRUE]

\* inf: above every number of the grid
NonFinite == [v |-> MaxVal + 1, fin |-> FALSE]

Pair(t) == Arr("tuple", 1, <<Num(t[1]), Num(t[2])>>)

Min2(a, b) == IF a < b THEN a ELSE b

Max2(a, b) == IF a < b THEN b ELSE a

RECURSIVE Power(_, _)
Power(b, e) == IF e = 0 THEN 1 ELSE b * Power(b, e - 1)

RECURSIVE SortedSeq(_)
SortedSeq(S) ==
    IF S = {} THEN <<>>
    ELSE LET m == CHOOSE a \in S : \A b \in S : a <= b
         IN <<m>> \o SortedSeq(S \ {m})

Ok(ret) == [err |-> "none", ret |-> ret]

Raise(kind) == [err |-> kind, ret |-> <<>>]

\* an exception of that kind whose message starts with msg
Fail(kind, msg) == [err |-> kind, ret |-> msg]

\* A mutable object (a list, a dict) has an identity next to its content.
\* The objects the caller has made carry the ids 1, 2, ...; id 0 is for the
\* objects made inside a call, to which the caller holds no reference.
Obj(id, val) == [id |-> id, val |-> val]

Item(key, value) == [key |-> key, value |-> value]

\* a dict: its items in the order of insertion, each value an object
Dict(id, items) == [id |-> id, items |-> items]

\* dict(d), and the dict a call f(**d) hands to f: a new dict of the same
\* value objects
dict(d) == Dict(0, d.items)

\* copy.deepcopy(d): a new dict of new value objects
deepcopy(d) ==
    Dict(0, [i \in DOMAIN d.items |->
                Item(d.items[i].key, Obj(0, d.items[i].value.val))])

\* what the dicts say, whichever objects say it
Content(d) ==
    [i \in DOMAIN d.items |-> <<d.items[i].key, d.items[i].value.val>>]

-----------------------------------------------------------------------------
(* _validate_domain_range *)

\* len(a) == 2 and a.ndim == 1, after len(a) itself has not raised
Length2(a) == a.ndim = 1 /\ Len(a.elems) = 2

\* _validate_domain_range without its two checks of ascending order
SkipAscending_validate_domain_range(dom, rng) ==
    IF dom.ndim = 0 THEN Raise("CalibrationError")
    ELSE IF ~Length2(dom) THEN Raise("CalibrationError")
    ELSE IF rng.ndim = 0 THEN Raise("CalibrationError")
    ELSE IF ~Length2(rng) THEN Raise("CalibrationError")
    ELSE IF ~dom.elems[1].fin \/ ~dom.elems[2].fin THEN Raise("CalibrationError")
    ELSE IF ~rng.elems[1].fin \/ ~rng.elems[2].fin THEN Raise("CalibrationError")
    ELSE Ok(<<>>)

_validate_domain_range(dom, rng) ==
    IF dom.ndim = 0 THEN Raise("CalibrationError")
    ELSE IF ~Length2(dom) THEN Raise("CalibrationError")
    ELSE IF rng.ndim = 0 THEN Raise("CalibrationError")
    ELSE IF ~Length2(rng) THEN Raise("CalibrationError")
    ELSE IF ~dom.elems[1].fin \/ ~dom.elems[2].fin THEN Raise("CalibrationError")
    ELSE IF ~rng.elems[1].fin \/ ~rng.elems[2].fin THEN Raise("CalibrationError")
    ELSE IF ~(dom.elems[2].v > dom.elems[1].v) THEN Raise("CalibrationError")
    ELSE IF ~(rng.elems[2].v > rng.elems[1].v) THEN Raise("CalibrationError")
    ELSE Ok(<<>>)

-----------------------------------------------------------------------------
(* Expression texts *)

\* One term of the sum: k * p[ps[1]] * p[ps[2]] * ... * var ** pow, times
\* the imaginary unit when im.  var is "x", "y" or "" (no variable).
Term(k, ps, var, pow) == [k |-> k, ps |-> ps, var |-> var, pow |-> pow, im |-> FALSE]

ImTerm(k, ps, var, pow) == [k |-> k, ps |-> ps, var |-> var, pow |-> pow, im |-> TRUE]

\* A text as the caller wrote it: style "raw" until black has formatted it.
Text(terms) == [terms |-> terms, style |-> "raw", parses |-> TRUE]

\* A text black cannot parse.
BadSyntax == [terms |-> <<>>, style |-> "raw", parses |-> FALSE]

\* black.format_str(...) followed by .strip(): the one canonical layout
black_format_str(text) == [text EXCEPT !.style = "black"]

RECURSIVE Tokens(_)
\* expression.split("p[")[1:], each cut at its "]": the index of every
\* parameter reference, in the order of the text
Tokens(terms) ==
    IF terms = <<>> THEN <<>>
    ELSE Head(terms).ps \o Tokens(Tail(terms))

_param_indices(text) ==
    LET tokens == Tokens(text.terms)
    IN SortedSeq({tokens[i] : i \in 1..Len(tokens)})

\* ast.walk(ast.parse(expression)): some Name node has the id ind_var
NameAppears(text, ind_var) ==
    \E i \in 1..Len(text.terms) : text.terms[i].var = ind_var

-----------------------------------------------------------------------------
(* safe_eval and _eval_expression *)

Unbound == Arr("unbound", 0, <<>>)

\* safe_eval.symtable after construction of the interpreter, as far as the
\* names "p", "x" and "y" go
NoBindings == [p |-> <<>>, x |-> Unbound, y |-> Unbound]

Bind(sym, p, ind_var, x) ==
    IF ind_var = "x" THEN [sym EXCEPT !.p = p, !.x = x]
    ELSE [sym EXCEPT !.p = p, !.y = x]

Lookup(sym, var) == IF var = "x" THEN sym.x ELSE sym.y

\* p[j] as Python indexes a sequence: a negative j counts from the end
IndexOk(p, j) == j < Len(p) /\ j >= 0 - Len(p)

ParamAt(p, j) == IF j >= 0 THEN p[j + 1] ELSE p[Len(p) + j + 1]

RECURSIVE ParamProduct(_, _)
ParamProduct(p, ps) ==
    IF ps = <<>> THEN 1
    ELSE ParamAt(p, Head(ps)) * ParamProduct(p, Tail(ps))

\* element i of a bound value, a scalar or a length-1 array being broadcast
Elem(a, i) == IF a.ndim = 0 \/ Len(a.elems) = 1 THEN a.elems[1] ELSE a.elems[i]

TermValue(t, sym, i) ==
    t.k * ParamProduct(sym.p, t.ps)
        * (IF t.var = "" THEN 1 ELSE Power(Elem(Lookup(sym, t.var), i), t.pow))

RECURSIVE SumTerms(_, _, _, _)
SumTerms(terms, sym, i, im) ==
    IF terms = <<>> THEN 0
    ELSE (IF Head(terms).im = im THEN TermValue(Head(terms), sym, i) ELSE 0)
         + SumTerms(Tail(terms), sym, i, im)

\* the names of the text that the interpreter can resolve, and the shapes
\* of the arrays it combines
Evaluable(text, sym) ==
    /\ \A i \in 1..Len(text.terms) :
          LET t == text.terms[i]
          IN /\ \A n \in 1..Len(t.ps) : IndexOk(sym.p, t.ps[n])
             /\ t.var # "" => Lookup(sym, t.var).type # "unbound"
    /\ \A i, j \in 1..Len(text.terms) :
          LET a == Lookup(sym, text.terms[i].var)
              b == Lookup(sym, text.terms[j].var)
          IN (text.terms[i].var # "" /\ text.terms[j].var # ""
                /\ a.ndim = 1 /\ b.ndim = 1)
             => (Len(a.elems) = Len(b.elems) \/ Len(a.elems) = 1 \/ Len(b.elems) = 1)

\* the length of the result: that of the longest array the text names
ResultLen(text, sym) ==
    LET lens == {Len(Lookup(sym, text.terms[i].var).elems) :
                    i \in {n \in 1..Len(text.terms) : text.terms[n].var # ""}}
    IN IF lens = {} THEN 1 ELSE CHOOSE n \in lens : \A m \in lens : m <= n

ResultDim(text, sym) ==
    IF \E i \in 1..Len(text.terms) :
          text.terms[i].var # "" /\ Lookup(sym, text.terms[i].var).ndim = 1
    THEN 1 ELSE 0

\* safe_eval(expression): [err, re, im], err TRUE when safe_eval.error is
\* not empty afterwards
safe_eval(text, sym) ==
    IF ~Evaluable(text, sym) THEN [err |-> TRUE, re |-> <<>>, im |-> <<>>]
    ELSE [err |-> FALSE,
          re |-> [i \in 1..ResultLen(text, sym) |-> SumTerms(text.terms, sym, i, FALSE)],
          im |-> [i \in 1..ResultLen(text, sym) |-> SumTerms(text.terms, sym, i, TRUE)]]

clip(v, lo, hi) == Min2(Max2(v, lo), hi)

Lo(a) == a.elems[1].v

Hi(a) == a.elems[2].v

\* _eval_expression without the clip to the range
NoClip_eval_expression(text, p, x, ind_var, dom, rng, sym) ==
    IF _validate_domain_range(dom, rng).err # "none" THEN Raise("CalibrationError")
    ELSE IF ~(\A i \in 1..Len(x.elems) : x.elems[i] >= Lo(dom))
         THEN Fail("CalibrationError", "must be >= domain[0]")
    ELSE IF ~(\A i \in 1..Len(x.elems) : x.elems[i] <= Hi(dom))
         THEN Fail("CalibrationError", "must be <= domain[1]")
    ELSE IF ind_var \notin {"x", "y"} THEN Raise("CalibrationError")
    ELSE LET bound == Bind(sym, p, ind_var, Arr("ndarray", x.ndim, x.elems))
             y == safe_eval(text, bound)
         IN IF y.err THEN Fail("CalibrationError", "asteval failed with errors")
            ELSE IF ~(\A i \in 1..Len(y.im) : y.im[i] = 0)
                 THEN Fail("CalibrationError", "complex values")
            ELSE Ok(Arr(IF ResultDim(text, bound) = 0 THEN "float" ELSE "ndarray",
                        ResultDim(text, bound), y.re))

\* _eval_expression without the check against domain[1]
NoUpperCheck_eval_expression(text, p, x, ind_var, dom, rng, sym) ==
    IF _validate_domain_range(dom, rng).err # "none" THEN Raise("CalibrationError")
    ELSE IF ~(\A i \in 1..Len(x.elems) : x.elems[i] >= Lo(dom))
         THEN Fail("CalibrationError", "must be >= domain[0]")
    ELSE IF ind_var \notin {"x", "y"} THEN Raise("CalibrationError")
    ELSE LET bound == Bind(sym, p, ind_var, Arr("ndarray", x.ndim, x.elems))
             y == safe_eval(text, bound)
         IN IF y.err THEN Fail("CalibrationError", "asteval failed with errors")
            ELSE IF ~(\A i \in 1..Len(y.im) : y.im[i] = 0)
                 THEN Fail("CalibrationError", "complex values")
            ELSE Ok(Arr(IF ResultDim(text, bound) = 0 THEN "float" ELSE "ndarray",
                        ResultDim(text, bound),
                        [i \in 1..Len(y.re) |-> clip(y.re[i], Lo(rng), Hi(rng))]))

\* _eval_expression with the bindings the interpreter holds on entry; the
\* result is a float for a scalar x and an array otherwise
_eval_expression(text, p, x, ind_var, dom, rng, sym) ==
    IF _validate_domain_range(dom, rng).err # "none" THEN Raise("CalibrationError")
    ELSE IF ~(\A i \in 1..Len(x.elems) : x.elems[i] >= Lo(dom))
         THEN Fail("CalibrationError", "must be >= domain[0]")
    ELSE IF ~(\A i \in 1..Len(x.elems) : x.elems[i] <= Hi(dom))
         THEN Fail("CalibrationError", "must be <= domain[1]")
    ELSE IF ind_var \notin {"x", "y"} THEN Raise("CalibrationError")
    ELSE LET bound == Bind(sym, p, ind_var, Arr("ndarray", x.ndim, x.elems))
             y == safe_eval(text, bound)
         IN IF y.err THEN Fail("CalibrationError", "asteval failed with errors")
            ELSE IF ~(\A i \in 1..Len(y.im) : y.im[i] = 0)
                 THEN Fail("CalibrationError", "complex values")
            ELSE Ok(Arr(IF ResultDim(text, bound) = 0 THEN "float" ELSE "ndarray",
                        ResultDim(text, bound),
                        [i \in 1..Len(y.re) |-> clip(y.re[i], Lo(rng), Hi(rng))]))

-----------------------------------------------------------------------------
(* _validate_expression *)

\* the params argument: None, or a parameter vector
NoParams == [given |-> FALSE, p |-> <<>>]

Given(p) == [given |-> TRUE, p |-> p]

\* np.diff(param_indices) is 1 everywhere
Contiguous(idx) == \A i \in 1..(Len(idx) - 1) : idx[i + 1] - idx[i] = 1

\* what np.random.uniform(domain[0], domain[1]) can draw, and the distinct
\* values of what np.random.uniform(domain[0], domain[1], size=5) can draw
\* (the evaluation is element by element), listed in ascending order
ScalarSamples(dom) == {v \in Vals : Lo(dom) <= v /\ v <= Hi(dom)}

ArraySamples(dom) == {SortedSeq(S) : S \in (SUBSET ScalarSamples(dom)) \ {{}}}

\* _validate_expression without the check that the indices are contiguous
NoGapCheck_validate_expression(text, prm, ind_var, dom, rng, x_val, x_arr, sym) ==
    IF _validate_domain_range(dom, rng).err # "none" THEN Raise("CalibrationError")
    ELSE IF ~text.parses THEN Raise("CalibrationError")
    ELSE LET formatted == black_format_str(text)
             param_indices == _param_indices(formatted)
         IN IF ind_var \notin {"x", "y"} THEN Raise("CalibrationError")
            ELSE IF ~NameAppears(formatted, ind_var) THEN Raise("CalibrationError")
            ELSE IF Len(param_indices) > 0 /\ param_indices[1] # 0
                 THEN Raise("CalibrationError")
            ELSE IF prm.given /\ Len(param_indices) # Len(prm.p)
                 THEN Raise("CalibrationError")
            ELSE IF prm.given
                    /\ _eval_expression(formatted, prm.p, Arr("float", 0, <<x_val>>),
                                        ind_var, Pair(DEFAULT_DOMAIN),
                                        Pair(DEFAULT_RANGE), sym).err # "none"
                 THEN Raise("CalibrationError")
            ELSE IF prm.given
                    /\ _eval_expression(formatted, prm.p, Arr("ndarray", 1, x_arr),
                                        ind_var, Pair(DEFAULT_DOMAIN),
                                        Pair(DEFAULT_RANGE), sym).err # "none"
                 THEN Raise("CalibrationError")
            ELSE Ok(formatted)

\* _validate_expression for one draw (x_val, x_arr) of its two samples
_validate_expression(text, prm, ind_var, dom, rng, x_val, x_arr, sym) ==
    IF _validate_domain_range(dom, rng).err # "none" THEN Raise("CalibrationError")
    ELSE IF ~text.parses THEN Raise("CalibrationError")
    ELSE LET formatted == black_format_str(text)
             param_indices == _param_indices(formatted)
         IN IF ind_var \notin {"x", "y"} THEN Raise("CalibrationError")
            ELSE IF ~NameAppears(formatted, ind_var) THEN Raise("CalibrationError")
            ELSE IF Len(param_indices) > 0 /\ param_indices[1] # 0
                 THEN Raise("CalibrationError")
            ELSE IF Len(param_indices) > 0 /\ ~Contiguous(param_indices)
                 THEN Raise("CalibrationError")
            ELSE IF prm.given /\ Len(param_indices) # Len(prm.p)
                 THEN Raise("CalibrationError")
            ELSE IF prm.given
                    /\ _eval_expression(formatted, prm.p, Arr("float", 0, <<x_val>>),
                                        ind_var, Pair(DEFAULT_DOMAIN),
                                        Pair(DEFAULT_RANGE), sym).err # "none"
                 THEN Raise("CalibrationError")
            ELSE IF prm.given
                    /\ _eval_expression(formatted, prm.p, Arr("ndarray", 1, x_arr),
                                        ind_var, Pair(DEFAULT_DOMAIN),
                                        Pair(DEFAULT_RANGE), sym).err # "none"
                 THEN Raise("CalibrationError")
            ELSE Ok(formatted)

\* every outcome _validate_expression can have, over the draws of its samples
ValidateOutcomes(text, prm, ind_var, dom, rng) ==
    IF _validate_domain_range(dom, rng).err # "none" THEN {Raise("CalibrationError")}
    ELSE IF ~prm.given
         THEN {_validate_expression(text, prm, ind_var, dom, rng, 0, <<0>>, NoBindings)}
    ELSE {_validate_expression(text, prm, ind_var, dom, rng, x_val, x_arr, NoBindings) :
             x_val \in ScalarSamples(dom), x_arr \in ArraySamples(dom)}

-----------------------------------------------------------------------------
(* _check_points *)

NoneArg == Arr("NoneType", 0, <<>>)

\* points = [] if points is None, then np.atleast_1d(points)
atleast_1d(a) ==
    IF a.type = "NoneType" THEN Arr("ndarray", 1, <<>>)
    ELSE IF a.ndim = 0 THEN Arr("ndarray", 1, a.elems)
    ELSE Arr("ndarray", a.ndim, a.elems)

Orders(n) == {f \in [1..n -> 1..n] : \A i, j \in 1..n : f[i] = f[j] => i = j}

\* what np.argsort(xs) can return: an order that makes xs ascending (the
\* order of equal keys is the sort's own)
argsort(xs) ==
    {i \in Orders(Len(xs)) : \A a, b \in 1..Len(xs) : a < b => xs[i[a]] <= xs[i[b]]}

Take(xs, i) == [n \in 1..Len(xs) |-> xs[i[n]]]

OutsideAny(xs, lo, hi) == \E n \in 1..Len(xs) : xs[n] < lo \/ hi < xs[n]

\* _check_points from the sort on, for the order i that argsort returned
_check_points_sorted(px, py, dom, rng, i) ==
    LET xs == Take(px.elems, i)
        ys == Take(py.elems, i)
    IN IF OutsideAny(xs, dom[1], dom[2]) THEN Raise("CalibrationError")
       ELSE IF OutsideAny(ys, rng[1], rng[2]) THEN Raise("CalibrationError")
       ELSE Ok(<<Arr("ndarray", 1, xs), Arr("ndarray", 1, ys)>>)

\* _check_points without the argsort
NoSort_check_points(points_x_in, points_y_in, dom, rng) ==
    LET px == atleast_1d(points_x_in)
        py == atleast_1d(points_y_in)
    IN IF px.ndim # 1 THEN {Raise("CalibrationError")}
       ELSE IF py.ndim # 1 THEN {Raise("CalibrationError")}
       ELSE IF Len(px.elems) # Len(py.elems) THEN {Raise("CalibrationError")}
       ELSE {_check_points_sorted(px, py, dom, rng, [n \in 1..Len(px.elems) |-> n])}

\* every outcome of _check_points; dom and rng are pairs of numbers
_check_points(points_x_in, points_y_in, dom, rng) ==
    LET px == atleast_1d(points_x_in)
        py == atleast_1d(points_y_in)
    IN IF px.ndim # 1 THEN {Raise("CalibrationError")}
       ELSE IF py.ndim # 1 THEN {Raise("CalibrationError")}
       ELSE IF Len(px.elems) # Len(py.elems) THEN {Raise("CalibrationError")}
       ELSE {_check_points_sorted(px, py, dom, rng, i) : i \in argsort(px.elems)}

-----------------------------------------------------------------------------
(* _fit_expression *)

\* the parameter values scipy.optimize.least_squares can return
FitVals == {1, 2}

ParamVecs(n) == [1..n -> FitVals]

ones(n) == [i \in 1..n |-> 1]

\* scipy.optimize.least_squares(residuals, params0, args=(xs, ys)): the first
\* residuals call raises what _eval_expression raises; otherwise the solver
\* fails (results.success is False) or returns some vector of len(params0)
least_squares(text, params0, xs) ==
    IF _eval_expression(text, params0, xs, "x", Pair(DEFAULT_DOMAIN),
                        Pair(DEFAULT_RANGE), NoBindings).err # "none"
    THEN {_eval_expression(text, params0, xs, "x", Pair(DEFAULT_DOMAIN),
                           Pair(DEFAULT_RANGE), NoBindings)}
    ELSE {Raise("CalibrationError")} \cup {Ok(p) : p \in ParamVecs(Len(params0))}

\* _fit_checked without the check that there are enough points
NoCountCheck_fit_checked(text, pts, params0) ==
    LET n_params == Len(_param_indices(text))
        p0 == IF params0.given THEN params0.p ELSE ones(n_params)
    IN IF Len(p0) # n_params THEN {Raise("CalibrationError")}
       ELSE UNION {
            IF v.err # "none" THEN {Raise("CalibrationError")}
            ELSE IF n_params = 0 THEN {Ok(<<>>)}
            ELSE least_squares(v.ret, p0, pts[1])
            : v \in ValidateOutcomes(text, Given(p0), "x",
                                     Pair(DEFAULT_DOMAIN), Pair(DEFAULT_RANGE))}

\* _fit_expression after its first two checks have passed: text is the
\* formatted expression, pts the checked points
_fit_checked(text, pts, params0) ==
    LET n_params == Len(_param_indices(text))
        p0 == IF params0.given THEN params0.p ELSE ones(n_params)
    IN IF Len(p0) # n_params THEN {Raise("CalibrationError")}
       ELSE UNION {
            IF v.err # "none" THEN {Raise("CalibrationError")}
            ELSE IF Len(pts[1].elems) < n_params THEN {Raise("CalibrationError")}
            ELSE IF n_params = 0 THEN {Ok(<<>>)}
            ELSE least_squares(v.ret, p0, pts[1])
            : v \in ValidateOutcomes(text, Given(p0), "x",
                                     Pair(DEFAULT_DOMAIN), Pair(DEFAULT_RANGE))}

\* every outcome of _fit_expression; dom and rng are array-likes
_fit_expression(text, px, py, params0, dom, rng) ==
    UNION {
        IF v.err # "none" THEN {Raise("CalibrationError")}
        ELSE UNION {
            IF cp.err # "none" THEN {Raise("CalibrationError")}
            ELSE _fit_checked(v.ret, cp.ret, params0)
            : cp \in _check_points(px, py, <<Lo(dom), Hi(dom)>>, <<Lo(rng), Hi(rng)>>)}
        : v \in ValidateOutcomes(text, NoParams, "x", dom, rng)}

-----------------------------------------------------------------------------
(* class Calibration *)

\* the fields of the object the methods below act on
Self ==
    [expression |-> expression, params |-> params,
     inv_expression |-> inv_expression, domain |-> domain, range |-> range,
     points_x |-> points_x, points_y |-> points_y, attrs |-> attrs]

\* an outcome of a method: the object afterwards, what was raised, what
\* was returned
Out(c, err, ret) == [c |-> c, err |-> err, ret |-> ret]

\* the outcomes of S, each followed by F when it raised nothing
AndThen(S, F(_)) == UNION {IF o.err = "none" THEN F(o.c) ELSE {o} : o \in S}

\* the expression setter, were it to assign before it validates
AssignFirst_set_expression(c, text) ==
    {Out([c EXCEPT !.expression = black_format_str(text)], v.err, <<>>)
        : v \in ValidateOutcomes(text, NoParams, "x",
                                 Pair(DEFAULT_DOMAIN), Pair(DEFAULT_RANGE))}

\* Calibration.expression = text
set_expression(c, text) ==
    {IF v.err = "none" THEN Out([c EXCEPT !.expression = v.ret], "none", <<>>)
     ELSE Out(c, v.err, <<>>)
        : v \in ValidateOutcomes(text, NoParams, "x",
                                 Pair(DEFAULT_DOMAIN), Pair(DEFAULT_RANGE))}

\* Calibration.params = p
set_params(c, p) ==
    IF p.type = "NoneType" \/ p.ndim # 1 THEN {Out(c, "CalibrationError", <<>>)}
    ELSE {IF v.err = "none" THEN Out([c EXCEPT !.params = p.elems], "none", <<>>)
          ELSE Out(c, v.err, <<>>)
             : v \in ValidateOutcomes(c.expression, Given(p.elems), "x",
                                      Pair(DEFAULT_DOMAIN), Pair(DEFAULT_RANGE))}

\* Calibration.inv_expression = text
set_inv_expression(c, text) ==
    IF text = None THEN {Out([c EXCEPT !.inv_expression = None], "none", <<>>)}
    ELSE {IF v.err = "none" THEN Out([c EXCEPT !.inv_expression = v.ret], "none", <<>>)
          ELSE Out(c, v.err, <<>>)
             : v \in ValidateOutcomes(text, NoParams, "y",
                                      Pair(DEFAULT_DOMAIN), Pair(DEFAULT_RANGE))}

\* Calibration.domain = d
set_domain(c, d) ==
    IF _validate_domain_range(d, Pair(<<0, 1>>)).err # "none"
    THEN {Out(c, "CalibrationError", <<>>)}
    ELSE {Out([c EXCEPT !.domain = <<Lo(d), Hi(d)>>], "none", <<>>)}

\* Calibration.range = rng
set_range(c, rng) ==
    IF _validate_domain_range(Pair(<<0, 1>>), rng).err # "none"
    THEN {Out(c, "CalibrationError", <<>>)}
    ELSE {Out([c EXCEPT !.range = <<Lo(rng), Hi(rng)>>], "none", <<>>)}

\* the attrs setter with dict(a) for dict(copy.deepcopy(a))
ShallowCopy_set_attrs(c, a) == {Out([c EXCEPT !.attrs = dict(a)], "none", <<>>)}

\* Calibration.attrs = a: dict(copy.deepcopy(a))
set_attrs(c, a) == {Out([c EXCEPT !.attrs = dict(deepcopy(a))], "none", <<>>)}

append(a, b) == Arr("ndarray", 1, a.elems \o b.elems)

\* Calibration.add_points
add_points(c, px, py) ==
    UNION {
        IF new.err # "none" THEN {Out(c, new.err, <<>>)}
        ELSE LET c1 == [c EXCEPT !.points_x = append(c.points_x, new.ret[1]),
                                 !.points_y = append(c.points_y, new.ret[2])]
             IN {IF all.err # "none" THEN Out(c1, all.err, <<>>)
                 ELSE Out([c1 EXCEPT !.points_x = all.ret[1],
                                     !.points_y = all.ret[2]], "none", <<>>)
                    : all \in _check_points(c1.points_x, c1.points_y, c.domain, c.range)}
        : new \in _check_points(px, py, c.domain, c.range)}

\* set_points without the two assignments of []
NoClear_set_points(c, px, py) == add_points(c, px, py)

\* Calibration.set_points
set_points(c, px, py) ==
    add_points([c EXCEPT !.points_x = Arr("list", 1, <<>>),
                         !.points_y = Arr("list", 1, <<>>)], px, py)

\* Calibration.__call__
call(c, x) ==
    LET y == _eval_expression(c.expression, c.params, x, "x",
                              Pair(c.domain), Pair(c.range), NoBindings)
    IN {Out(c, y.err, y.ret)}

\* Calibration.fit
\* fit that drops the parameters when the fit fails
ClearsOnFailure_fit(c) ==
    UNION {
        IF f.err # "none" THEN {Out([c EXCEPT !.params = <<>>], f.err, <<>>)}
        ELSE set_params(c, Arr("ndarray", 1, f.ret))
        : f \in _fit_expression(c.expression, c.points_x, c.points_y,
                                Given(c.params), Pair(c.domain), Pair(c.range))}

fit(c) ==
    UNION {
        IF f.err # "none" THEN {Out(c, f.err, <<>>)}
        ELSE set_params(c, Arr("ndarray", 1, f.ret))
        : f \in _fit_expression(c.expression, c.points_x, c.points_y,
                                Given(c.params), Pair(c.domain), Pair(c.range))}

\* the forward function at one number v: self(v)
Forward(c, v) ==
    _eval_expression(c.expression, c.params, Arr("float", 0, <<v>>), "x",
                     Pair(c.domain), Pair(c.range), NoBindings)

\* a root that is no number of the grid
OffGrid == Arr("offgrid", 0, <<>>)

\* scipy.optimize.root_scalar(lambda _x: self(_x) - target, bracket=domain):
\* with a bracket and no method it runs brentq, which raises ValueError
\* unless f has opposite signs (or a zero) at the two ends, and otherwise
\* converges to a root inside the bracket; which root, when there are
\* several, is the solver's own.  What self raises passes through.
root_scalar(c, target) ==
    LET fa == Forward(c, c.domain[1])
        fb == Forward(c, c.domain[2])
        roots == {v \in Vals : /\ c.domain[1] <= v /\ v <= c.domain[2]
                               /\ Forward(c, v).ret.elems[1] = target}
    IN IF fa.err # "none" \/ fb.err # "none" THEN {Raise("CalibrationError")}
       ELSE IF (fa.ret.elems[1] - target) * (fb.ret.elems[1] - target) > 0
            THEN {Raise("ValueError")}
       ELSE IF roots = {} THEN {Ok(OffGrid)}
       ELSE IF Cardinality(roots) = 1 THEN {Ok(Arr("float", 0, <<v>>)) : v \in roots}
       ELSE {Ok(Arr("float", 0, <<v>>)) : v \in roots} \cup {Ok(OffGrid)}

RECURSIVE root_each(_, _)
\* the loop over the elements of y: x[j] = root_scalar(...).root
root_each(c, ys) ==
    IF ys = <<>> THEN {Ok(Arr("ndarray", 1, <<>>))}
    ELSE UNION {
        IF r.err # "none" THEN {r}
        ELSE {IF rest.err # "none" THEN rest
              ELSE IF r.ret.type = "offgrid" \/ rest.ret.type = "offgrid"
                   THEN Ok(Arr("offgrid", 1, <<>>))
              ELSE Ok(Arr("ndarray", 1, r.ret.elems \o rest.ret.elems))
                 : rest \in root_each(c, Tail(ys))}
        : r \in root_scalar(c, Head(ys))}

\* y < self.range[0] is not defined for a Python list or tuple y when the
\* bounds are Python numbers, as those of a tuple given by the caller are
Comparable(y) == y.type \notin {"list", "tuple"}

OutsideRange(c, y) ==
    \E i \in 1..Len(y.elems) : y.elems[i] < c.range[1] \/ c.range[2] < y.elems[i]

\* inverse returning x without its final assert
NoAssert_inverse_check(c, x, y) == Out(c, "none", x)

\* the last two lines of inverse: assert np.allclose(self(x), y); return x
inverse_check(c, x, y) ==
    IF x.type = "offgrid" THEN Out(c, "none", x)
    ELSE LET back == _eval_expression(c.expression, c.params, x, "x",
                                      Pair(c.domain), Pair(c.range), NoBindings)
         IN IF back.err # "none" THEN Out(c, back.err, <<>>)
            ELSE IF back.ret.elems # y.elems THEN Out(c, "AssertionError", <<>>)
            ELSE Out(c, "none", x)

\* Calibration.inverse(y), x0 left at None
inverse(c, y) ==
    IF ~Comparable(y) THEN {Out(c, "TypeError", <<>>)}
    ELSE IF OutsideRange(c, y) THEN {Out(c, "CalibrationError", <<>>)}
    ELSE IF c.inv_expression = None
         THEN IF y.type = "float"
              THEN {IF r.err # "none" THEN Out(c, r.err, <<>>)
                    ELSE inverse_check(c, r.ret, y) : r \in root_scalar(c, y.elems[1])}
              ELSE IF y.ndim = 0 THEN {Out(c, "TypeError", <<>>)}
              ELSE {IF r.err # "none" THEN Out(c, r.err, <<>>)
                    ELSE inverse_check(c, r.ret, y) : r \in root_each(c, y.elems)}
    ELSE LET x == _eval_expression(c.inv_expression, c.params, y, "y",
                                   Pair(c.range), Pair(c.domain), NoBindings)
         IN IF x.err # "none" THEN {Out(c, x.err, <<>>)}
            ELSE {inverse_check(c, x.ret, y)}

\* Calibration.__init__(expression, params, inv_expression, domain, rng,
\* **attrs), called with **a
Construct(text, p, inv, d, rng, a) ==
    LET blank == [expression |-> None, params |-> <<>>, inv_expression |-> None,
                  domain |-> <<0, 0>>, range |-> <<0, 0>>,
                  points_x |-> Arr("list", 1, <<>>), points_y |-> Arr("list", 1, <<>>),
                  attrs |-> Dict(0, <<>>)]
    IN AndThen(set_expression(blank, text), LAMBDA c1 :
       AndThen(set_params(c1, p), LAMBDA c2 :
       AndThen(set_inv_expression(c2, inv), LAMBDA c3 :
       AndThen(set_domain(c3, d), LAMBDA c4 :
       AndThen(set_range(c4, rng), LAMBDA c5 :
       AndThen(set_attrs(c5, dict(a)), LAMBDA c6 :
       set_points(c6, NoneArg, NoneArg)))))))

-----------------------------------------------------------------------------
(* The arguments the calls are made with *)

\* "p[0] + p[1] * x"
E_LINEAR == Text(<<Term(1, <<0>>, "", 0), Term(1, <<1>>, "x", 1)>>)

\* "p[0] * x"
E_SCALE == Text(<<Term(1, <<0>>, "x", 1)>>)

\* "p[0] + x"
E_SHIFT == Text(<<Term(1, <<0>>, "", 0), Term(1, <<>>, "x", 1)>>)

\* "x"
E_X == Text(<<Term(1, <<>>, "x", 1)>>)

\* "p[0] + p[2] * x"
E_GAP == Text(<<Term(1, <<0>>, "", 0), Term(1, <<2>>, "x", 1)>>)

\* "p[1] * x"
E_FROM1 == Text(<<Term(1, <<1>>, "x", 1)>>)

\* "p[0]"
E_NO_X == Text(<<Term(1, <<0>>, "", 0)>>)

\* "p[0] * x + 1j"
E_IMAG == Text(<<Term(1, <<0>>, "x", 1), ImTerm(1, <<>>, "", 0)>>)

\* "y"
I_Y == Text(<<Term(1, <<>>, "y", 1)>>)

\* "y - p[0]"
I_UNSHIFT == Text(<<Term(1, <<>>, "y", 1), Term(0 - 1, <<0>>, "", 0)>>)

\* "p[1] * y - p[0] * p[1]"
I_LINEAR == Text(<<Term(1, <<1>>, "y", 1), Term(0 - 1, <<0, 1>>, "", 0)>>)

\* "x"
I_NO_Y == Text(<<Term(1, <<>>, "x", 1)>>)

ExpressionInputs == {E_LINEAR, E_SCALE, E_X, E_GAP, E_FROM1, E_NO_X, BadSyntax}

InvInputs == {None, I_LINEAR, I_NO_Y, BadSyntax}

SeqsUpTo(S, n) == UNION {[1..k -> S] : k \in 0..n}

\* params: lists of up to two numbers, a nested list, a bare number, None
ParamInputs ==
    {Arr("list", 1, s) : s \in SeqsUpTo(FitVals, 2)}
        \cup {Arr("list", 2, <<1, 1>>), Arr("float", 0, <<1>>), NoneArg}

\* domain and rng: the pairs of grid numbers, and what is no pair, not
\* finite or not one-dimensional
DomainInputs ==
    {Pair(<<a, b>>) : a, b \in Vals}
        \cup {Arr("float", 0, <<Num(1)>>),
              Arr("tuple", 1, <<Num(0)>>),
              Arr("tuple", 1, <<Num(0), Num(1), Num(2)>>),
              Arr("list", 2, <<Num(0), Num(1)>>),
              Arr("tuple", 1, <<NonFinite, Num(1)>>),
              Arr("tuple", 1, <<Num(0), NonFinite>>)}

\* {}
NoAttrs == Dict(1, <<>>)

\* {"note": [0]}
NoteAttrs == Dict(1, <<Item("note", Obj(2, <<0>>))>>)

AttrInputs == {NoAttrs, NoteAttrs}

\* points_x and points_y: None, a number, a list of up to n numbers, a
\* nested list
PointArgs(n) ==
    {NoneArg} \cup {Arr("float", 0, <<v>>) : v \in Vals}
        \cup {Arr("list", 1, s) : s \in SeqsUpTo(Vals, n)}
        \cup {Arr("list", 2, <<0, 0>>)}

-----------------------------------------------------------------------------
(* The state machine *)

Called(op, arg, o) == [op |-> op, arg |-> arg, err |-> o.err, ret |-> o.ret]

Store(c) ==
    /\ expression' = c.expression
    /\ params' = c.params
    /\ inv_expression' = c.inv_expression
    /\ domain' = c.domain
    /\ range' = c.range
    /\ points_x' = c.points_x
    /\ points_y' = c.points_y
    /\ attrs' = c.attrs

RECURSIVE PairsBag(_, _)
\* the (x, y) pairs of two sequences of one length, as a bag
PairsBag(xs, ys) ==
    IF xs = <<>> THEN EmptyBag
    ELSE SetToBag({<<Head(xs), Head(ys)>>}) (+) PairsBag(Tail(xs), Tail(ys))

NoHistory == [pairs |-> EmptyBag, intact |-> TRUE]

\* the interpreter as the import of the module leaves it, no evaluation
\* under way, and an energy calibration as EnergyCalBase.__init__ leaves it
Idle ==
    /\ symtable = NoBindings
    /\ error = <<>>
    /\ evals = <<>>
    /\ _calpoints = <<>>
    /\ _coeffs = <<>>

\* the fields are those of some Calibration(text, p, inv, d, rng, **a) that
\* raised nothing
Built(texts, ps, invs, ds, rngs, as) ==
    \E text \in texts, p \in ps, inv \in invs, d \in ds, rng \in rngs, a \in as :
        \E o \in Construct(text, p, inv, d, rng, a) :
            /\ o.err = "none"
            /\ expression = o.c.expression
            /\ params = o.c.params
            /\ inv_expression = o.c.inv_expression
            /\ domain = o.c.domain
            /\ range = o.c.range
            /\ points_x = o.c.points_x
            /\ points_y = o.c.points_y
            /\ attrs = o.c.attrs

Constructed(texts, ps, invs, ds, rngs, as) ==
    /\ Built(texts, ps, invs, ds, rngs, as)
    /\ last = [op |-> "__init__", arg |-> <<>>, err |-> "none", ret |-> <<>>]
    /\ history = NoHistory /\ Idle

\* a few intervals: the default one, the whole grid, and what is no
\* interval
SomeIntervals ==
    {Pair(DEFAULT_DOMAIN), Pair(<<0, MaxVal>>), Pair(<<1, 0>>),
     Arr("float", 0, <<Num(1)>>), Arr("tuple", 1, <<Num(0), NonFinite>>)}

\* Calibration(...): any construction that raises nothing
Init == Constructed(ExpressionInputs, ParamInputs, InvInputs,
                    SomeIntervals, SomeIntervals, {NoteAttrs})

SetExpression(texts) ==
    \E text \in texts : \E o \in set_expression(Self, text) :
        Store(o.c) /\ last' = Called("expression", <<>>, o) /\ UNCHANGED <<history, elsewhere>>

SetParams ==
    \E p \in ParamInputs : \E o \in set_params(Self, p) :
        Store(o.c) /\ last' = Called("params", <<>>, o) /\ UNCHANGED <<history, elsewhere>>

SetInvExpression ==
    \E text \in InvInputs : \E o \in set_inv_expression(Self, text) :
        Store(o.c) /\ last' = Called("inv_expression", <<>>, o) /\ UNCHANGED <<history, elsewhere>>

\* the argument is kept in last when log
SetDomain(D, log) ==
    \E d \in D : \E o \in set_domain(Self, d) :
        /\ Store(o.c)
        /\ last' = Called("domain", IF log THEN d ELSE <<>>, o)
        /\ UNCHANGED <<history, elsewhere>>

SetRange(D, log) ==
    \E rng \in D : \E o \in set_range(Self, rng) :
        /\ Store(o.c)
        /\ last' = Called("range", IF log THEN rng ELSE <<>>, o)
        /\ UNCHANGED <<history, elsewhere>>

SetAttrs ==
    \E a \in AttrInputs : \E o \in set_attrs(Self, a) :
        Store(o.c) /\ last' = Called("attrs", <<>>, o) /\ UNCHANGED <<history, elsewhere>>

\* add_points(px, py) for px of PX and py of PY
AddPoints(PX, PY) ==
    \E px \in PX, py \in PY :
        /\ Len(points_x.elems) + Len(px.elems) <= MaxPts
        /\ \E o \in add_points(Self, px, py) :
              /\ Store(o.c)
              /\ last' = Called("add_points", <<>>, o)
              /\ UNCHANGED elsewhere
              /\ history' = IF o.err = "none"
                            THEN [history EXCEPT
                                    !.pairs = @ (+) PairsBag(px.elems, py.elems)]
                            ELSE [history EXCEPT !.intact = FALSE]

\* set_points(px, py) for px of PX and py of PY
SetPoints(PX, PY) ==
    \E px \in PX, py \in PY :
        /\ Len(px.elems) <= MaxPts
        /\ \E o \in set_points(Self, px, py) :
              /\ Store(o.c)
              /\ last' = Called("set_points", <<>>, o)
              /\ UNCHANGED elsewhere
              /\ history' = IF o.err = "none"
                            THEN [pairs |-> PairsBag(px.elems, py.elems), intact |-> TRUE]
                            ELSE [pairs |-> EmptyBag, intact |-> FALSE]

Fit ==
    \E o \in fit(Self) :
        Store(o.c) /\ last' = Called("fit", <<>>, o) /\ UNCHANGED <<history, elsewhere>>

\* cal(x)
Call(X) ==
    \E x \in X : \E o \in call(Self, x) :
        Store(o.c) /\ last' = Called("__call__", x, o) /\ UNCHANGED <<history, elsewhere>>

\* cal.inverse(y)
Inverse(Y) ==
    \E y \in Y : \E o \in inverse(Self, y) :
        Store(o.c) /\ last' = Called("inverse", y, o) /\ UNCHANGED <<history, elsewhere>>

\* cal.inverse(cal(x)), cal(x) being the value the last call returned; the
\* x of that call stays in last.arg
InverseOfCall ==
    /\ last.op = "__call__"
    /\ last.err = "none"
    /\ \E o \in inverse(Self, last.ret) :
          /\ Store(o.c)
          /\ last' = [op |-> "inverse(cal(x))", arg |-> last.arg, y |-> last.ret,
                      err |-> o.err, ret |-> o.ret]
          /\ UNCHANGED <<history, elsewhere>>

\* a few points for the calls that need some to be stored
SomePointsX == {NoneArg, Arr("list", 1, <<0, 1>>), Arr("float", 0, <<MaxVal>>)}

SomePointsY == {NoneArg, Arr("list", 1, <<0, 1>>), Arr("float", 0, <<0>>)}

Next ==
    \/ SetExpression(ExpressionInputs)
    \/ SetParams
    \/ SetInvExpression
    \/ SetDomain(SomeIntervals, FALSE)
    \/ SetRange(SomeIntervals, FALSE)
    \/ AddPoints(SomePointsX, SomePointsY)
    \/ SetPoints(SomePointsX, SomePointsY)
    \/ Fit

Spec == Init /\ [][Next]_vars

-----------------------------------------------------------------------------
(* Evaluation: calls of a Calibration, after construction and after the   *)
(* expression has been assigned anew                                      *)

\* x: a number, or an array of up to two numbers
XInputs ==
    {Arr("float", 0, <<v>>) : v \in Vals}
        \cup {Arr("ndarray", 1, s) : s \in SeqsUpTo(Vals, 2)}

InitEval ==
    Constructed({E_LINEAR, E_SCALE, E_SHIFT, E_X}, ParamInputs, {None},
                DomainInputs, DomainInputs, {NoAttrs})

NextEval ==
    \/ Call(XInputs)
    \/ SetExpression({E_LINEAR, E_SCALE, E_IMAG})

SpecEval == InitEval /\ [][NextEval]_vars

InDomain(x) == \A i \in 1..Len(x.elems) : domain[1] <= x.elems[i] /\ x.elems[i] <= domain[2]

DomainMessages == {"must be >= domain[0]", "must be <= domain[1]"}

\* C1: a call with an element of x below domain[0] or above domain[1] raises
\* CalibrationError (the out-of-domain one), and a call whose elements all
\* lie in [domain[0], domain[1]], the two ends included, does not raise it.
C1_DomainEnforced ==
    last.op = "__call__" =>
        /\ ~InDomain(last.arg) =>
              last.err = "CalibrationError" /\ last.ret \in DomainMessages
        /\ InDomain(last.arg) =>
              ~(last.err = "CalibrationError" /\ last.ret \in DomainMessages)

\* a call at both ends of the domain has returned
C1_Witness ==
    /\ last.op = "__call__"
    /\ last.err = "none"
    /\ last.arg.elems = <<domain[1], domain[2]>>

\* the value of the expression at x before clipping: [err, re, im]
Raw(x) == safe_eval(expression, Bind(NoBindings, params, "x", x))

Real(y) == ~y.err /\ \A i \in 1..Len(y.im) : y.im[i] = 0

\* C2: for x in the domain where the expression has real values, the call
\* raises nothing and returns, element by element, range[1] for a value
\* above it, range[0] for a value below it, and the value itself otherwise.
C2_RangeClipped ==
    (last.op = "__call__" /\ InDomain(last.arg) /\ Real(Raw(last.arg))) =>
        /\ last.err = "none"
        /\ Len(last.ret.elems) = Len(last.arg.elems)
        /\ \A i \in 1..Len(last.arg.elems) :
              LET raw == Raw(last.arg).re[i]
                  y == last.ret.elems[i]
              IN /\ range[1] <= y /\ y <= range[2]
                 /\ raw > range[2] => y = range[2]
                 /\ raw < range[1] => y = range[1]
                 /\ (range[1] <= raw /\ raw <= range[2]) => y = raw

\* a call has returned one value clipped from above and one from below
C2_Witness ==
    /\ last.op = "__call__"
    /\ last.err = "none"
    /\ Len(last.arg.elems) = 2
    /\ Raw(last.arg).re[1] < range[1]
    /\ Raw(last.arg).re[2] > range[2]

-----------------------------------------------------------------------------
(* Validation of expression texts, as a function of the text *)

MaxIdx == 2

\* "p[a] * p[b] * ... * x" for up to three indices from -1 to MaxIdx
IndexedTexts ==
    {Text(<<Term(1, idx, "x", 1)>>) : idx \in SeqsUpTo((0 - 1)..MaxIdx, 3)}

InitValidate ==
    /\ Built({E_X}, {Arr("list", 1, <<>>)}, {None},
             {Pair(DEFAULT_DOMAIN)}, {Pair(DEFAULT_RANGE)}, {NoAttrs})
    /\ \E text \in IndexedTexts :
          last = [op |-> "text", arg |-> text, err |-> "none", ret |-> <<>>]
    /\ history = NoHistory /\ Idle

\* _validate_expression(text) for the text drawn
Validate ==
    /\ last.op = "text"
    /\ \E v \in ValidateOutcomes(last.arg, NoParams, "x",
                                 Pair(DEFAULT_DOMAIN), Pair(DEFAULT_RANGE)) :
          last' = Called("_validate_expression", last.arg, v)
    /\ UNCHANGED <<fields, history, elsewhere>>

NextValidate == Validate

SpecValidate == InitValidate /\ [][NextValidate]_vars

\* the distinct j of the "p[j]" in a text
IndexSet(text) ==
    UNION {{text.terms[i].ps[n] : n \in 1..Len(text.terms[i].ps)} :
              i \in 1..Len(text.terms)}

\* C3: validation passes the parameter-index check exactly when the distinct
\* indices are none or 0, 1, ..., n - 1; any other set raises
\* CalibrationError.
C3_IndicesContiguous ==
    last.op = "_validate_expression" =>
        LET J == IndexSet(last.arg)
        IN /\ (J = {} \/ J = 0..(Cardinality(J) - 1)) <=> last.err = "none"
           /\ last.err \in {"none", "CalibrationError"}

\* the text with p[0] and p[2] but no p[1] has been refused
C3_Witness ==
    /\ last.op = "_validate_expression"
    /\ IndexSet(last.arg) = {0, 2}
    /\ last.err = "CalibrationError"

-----------------------------------------------------------------------------
(* The live Calibration under its setters, add_points, set_points and fit *)

\* C4: in every reachable state, len(params) is the number of distinct
\* indices j of the p[j] in expression.
C4_ParamsMatchIndices == Len(params) = Len(_param_indices(expression))

\* C7: in every reachable state, each stored point has its x within the
\* current domain and its y within the current range.
C7_PointsWithinBounds ==
    /\ \A i \in 1..Len(points_x.elems) :
          domain[1] <= points_x.elems[i] /\ points_x.elems[i] <= domain[2]
    /\ \A i \in 1..Len(points_y.elems) :
          range[1] <= points_y.elems[i] /\ points_y.elems[i] <= range[2]

\* the assignments alone, with set_points for the points to be stored
NextSetters ==
    \/ SetExpression(ExpressionInputs)
    \/ SetParams
    \/ SetInvExpression
    \/ SetDomain(SomeIntervals, FALSE)
    \/ SetRange(SomeIntervals, FALSE)
    \/ SetPoints(SomePointsX, SomePointsY)

SpecSetters == Init /\ [][NextSetters]_vars

Setters == {"expression", "params", "inv_expression", "domain", "range"}

\* C8: an assignment to expression, params, inv_expression, domain or
\* range that raises CalibrationError leaves every field as it was.
C8_FailedSetterKeepsFields ==
    [][(last'.op \in Setters /\ last'.err = "CalibrationError")
          => fields' = fields]_vars

\* an assignment to expression has been refused while points are stored
C8_Witness ==
    /\ last.op = "expression"
    /\ last.err = "CalibrationError"
    /\ Len(points_x.elems) > 0

-----------------------------------------------------------------------------
(* Domain and range: construction and assignment with every kind of       *)
(* argument                                                               *)

\* Calibration("x", [], domain=d, rng=rng) bound to the name of the live
\* one; the name keeps the old object when the constructor raises
New(D) ==
    \E d \in D, rng \in D :
        \E o \in Construct(E_X, Arr("list", 1, <<>>), None, d, rng, NoAttrs) :
            /\ IF o.err = "none" THEN Store(o.c) ELSE UNCHANGED fields
            /\ last' = Called("__init__", <<d, rng>>, o)
            /\ UNCHANGED elsewhere
            /\ history' = IF o.err = "none" THEN NoHistory ELSE history

InitBounds ==
    Constructed({E_X}, {Arr("list", 1, <<>>)}, {None},
                DomainInputs, DomainInputs, {NoAttrs})

NextBounds ==
    \/ SetDomain(DomainInputs, TRUE)
    \/ SetRange(DomainInputs, TRUE)
    \/ New(DomainInputs)

SpecBounds == InitBounds /\ [][NextBounds]_vars

\* a pair of finite numbers, the first below the second
FiniteAscending(t) ==
    /\ Len(t) = 2
    /\ t[1] \in Vals /\ t[2] \in Vals
    /\ t[1] < t[2]

\* the argument is a one-dimensional sequence of two finite numbers in
\* strictly ascending order
GoodInterval(a) ==
    /\ a.ndim = 1
    /\ Len(a.elems) = 2
    /\ \A i \in 1..Len(a.elems) : a.elems[i].fin
    /\ a.elems[1].v < a.elems[2].v

-----------------------------------------------------------------------------
(* The stored points under add_points and set_points with every kind of   *)
(* argument                                                               *)

\* points_y: as PointArgs, with the two ends of the grid for numbers
PointArgsY(n) ==
    {NoneArg} \cup {Arr("float", 0, <<v>>) : v \in {0, MaxVal}}
        \cup {Arr("list", 1, s) : s \in SeqsUpTo({0, MaxVal}, n)}
        \cup {Arr("list", 2, <<0, 0>>)}

InitPoints ==
    Constructed({E_X}, {Arr("list", 1, <<>>)}, {None},
                {Pair(DEFAULT_DOMAIN), Pair(<<0, MaxVal>>)}, {Pair(<<0, MaxVal>>)},
                {NoAttrs})

NextPoints ==
    \/ AddPoints(PointArgs(MaxPts), PointArgsY(MaxPts))
    \/ SetPoints(PointArgs(MaxPts), PointArgsY(MaxPts))

SpecPoints == InitPoints /\ [][NextPoints]_vars

Ascending(xs) == \A i \in 1..(Len(xs) - 1) : xs[i] <= xs[i + 1]

\* C6: after a set_points and the add_points that followed it, all of
\* them successful, points_x is in ascending order, points_x and points_y
\* have one length, and the stored (x, y) pairs are, as a multiset, the
\* pairs those calls were given.
C6_PointsSortedAndPaired ==
    (history.intact /\ last.op \in {"add_points", "set_points"}) =>
        /\ Ascending(points_x.elems)
        /\ Len(points_x.elems) = Len(points_y.elems)
        /\ PairsBag(points_x.elems, points_y.elems) = history.pairs

\* add_points with the xs in descending order has stored them ascending,
\* each y with its x
C6_Witness ==
    /\ last.op = "add_points"
    /\ last.err = "none"
    /\ history.intact
    /\ points_x.elems = <<0, 1>>
    /\ points_y.elems = <<MaxVal, 0>>
    /\ history.pairs = SetToBag({<<1, 0>>, <<0, MaxVal>>})

-----------------------------------------------------------------------------
(* The inverse: closed-form and by root finding                           *)

\* y: a float, an int, a list of one number, an array of up to two
YInputs ==
    {Arr("float", 0, <<v>>) : v \in Vals}
        \cup {Arr("int", 0, <<v>>) : v \in Vals}
        \cup {Arr("list", 1, <<v>>) : v \in Vals}
        \cup {Arr("ndarray", 1, s) : s \in SeqsUpTo(Vals, 2)}

\* the default interval, the whole grid, the grid above 0
InverseIntervals ==
    {Pair(DEFAULT_DOMAIN), Pair(<<0, MaxVal>>), Pair(<<1, MaxVal>>)}

InitInverse ==
    Constructed({E_X, E_SHIFT, E_SCALE}, ParamInputs, {None, I_Y, I_UNSHIFT},
                InverseIntervals, InverseIntervals, {NoAttrs})

NextInverse ==
    \/ Call(XInputs)
    \/ Inverse(YInputs)
    \/ InverseOfCall

SpecInverse == InitInverse /\ [][NextInverse]_vars

\* the numbers of the domain where the forward function has the value t
Preimage(t) ==
    {v \in Vals : /\ domain[1] <= v /\ v <= domain[2]
                  /\ Forward(Self, v).err = "none"
                  /\ Forward(Self, v).ret.elems[1] = t}

C10_OutsideRangeRefused ==
    (last.op = "inverse" /\ OutsideRange(Self, last.arg)) =>
        last.err = "CalibrationError"

-----------------------------------------------------------------------------
(* The kinds of exception that reach the caller *)

\* C11: whatever a call on a Calibration raises is a CalibrationError.
C11_OnlyCalibrationError == last.err \in {"none", "CalibrationError"}

-----------------------------------------------------------------------------
(* Calibration.__eq__ *)

\* what stands on the right of ==: a Calibration, or something else
Other(c) == [class |-> "Calibration", obj |-> c]

NotACalibration == [class |-> "str", obj |-> <<>>]

\* np.allclose(a, b) for two vectors of one length; the numbers of the grid
\* are close only when equal
allclose(a, b) == \A i \in 1..Len(a) : a[i] = b[i]

\* __eq__ comparing the expressions alone
ParamsIgnored_eq(c, other) ==
    IF other.class # "Calibration" THEN Out(c, "CalibrationError", <<>>)
    ELSE Out(c, "none", c.expression = other.obj.expression)

\* Calibration.__eq__
eq(c, other) ==
    IF other.class # "Calibration" THEN Out(c, "CalibrationError", <<>>)
    ELSE IF Len(c.params) # Len(other.obj.params) THEN Out(c, "none", FALSE)
    ELSE Out(c, "none", c.expression = other.obj.expression
                            /\ allclose(c.params, other.obj.params))

\* "p[0] * x" in the layout black gives it
E_SCALE_SPACED == black_format_str(E_SCALE)

\* the Calibrations some constructor call returns, without points and with
\* some
Calibrations(texts, ps, invs, ds, rngs, as, PX, PY) ==
    LET made == UNION {Construct(text, p, inv, d, rng, a) :
                         text \in texts, p \in ps, inv \in invs,
                         d \in ds, rng \in rngs, a \in as}
        pointed == UNION {AndThen({o}, LAMBDA c : set_points(c, px, py)) :
                            o \in made, px \in PX, py \in PY}
    IN {o.c : o \in {m \in made \cup pointed : m.err = "none"}}

EqTexts == {E_SCALE, E_SCALE_SPACED, E_SHIFT, E_X}

EqParams == {Arr("list", 1, <<>>), Arr("list", 1, <<1>>), Arr("list", 1, <<2>>)}

EqIntervals == {Pair(DEFAULT_DOMAIN), Pair(<<0, MaxVal>>)}

Others ==
    {Other(c) : c \in Calibrations(EqTexts, EqParams, {None, I_Y}, EqIntervals,
                                   {Pair(DEFAULT_RANGE)}, {NoAttrs, NoteAttrs},
                                   {Arr("list", 1, <<0, 1>>)},
                                   {Arr("list", 1, <<1, 0>>)})}
        \cup {NotACalibration}

\* cal == other
Eq ==
    \E other \in Others :
        /\ last' = Called("__eq__", other, eq(Self, other))
        /\ UNCHANGED <<fields, history, elsewhere>>

InitEq ==
    Constructed(EqTexts, EqParams, {None, I_Y}, EqIntervals,
                {Pair(DEFAULT_RANGE)}, {NoAttrs, NoteAttrs})

\* the expression setter is there for the Calibrations whose params are
\* not as many as the indices of their expression
NextEq ==
    \/ Eq
    \/ SetExpression({E_X, E_SCALE})
    \/ SetPoints({Arr("list", 1, <<0>>)}, {Arr("list", 1, <<1>>)})

SpecEq == InitEq /\ [][NextEq]_vars

\* C12: a == b raises nothing and is true exactly when the two formatted
\* expressions are the same text and the two parameter vectors are of one
\* length and close element by element, whatever the domains, ranges,
\* points, inverse expressions and attrs are.
C12_EqualityByExpressionAndParams ==
    (last.op = "__eq__" /\ last.arg.class = "Calibration") =>
        /\ last.err = "none"
        /\ last.ret <=> /\ expression = last.arg.obj.expression
                        /\ Len(params) = Len(last.arg.obj.params)
                        /\ \A i \in 1..Min2(Len(params), Len(last.arg.obj.params)) :
                              params[i] = last.arg.obj.params[i]

\* two Calibrations that differ in domain, points, inverse expression and
\* attrs have compared equal
C12_Witness ==
    /\ last.op = "__eq__"
    /\ last.ret = TRUE
    /\ domain # last.arg.obj.domain
    /\ points_x # last.arg.obj.points_x
    /\ inv_expression # last.arg.obj.inv_expression
    /\ attrs # last.arg.obj.attrs

\* two Calibrations with one expression and parameter vectors of different
\* lengths have compared unequal
C12_WitnessLengths ==
    /\ last.op = "__eq__"
    /\ last.err = "none"
    /\ last.ret = FALSE
    /\ expression = last.arg.obj.expression
    /\ Len(params) # Len(last.arg.obj.params)

-----------------------------------------------------------------------------
(* _fit_expression, as a function of its arguments *)

FitTexts == {E_X, E_SCALE, E_LINEAR}

FitPoints == {Arr("list", 1, s) : s \in SeqsUpTo(Vals, MaxPts)}

FitPointsY == {Arr("list", 1, s) : s \in SeqsUpTo({0, MaxVal}, MaxPts)}

FitParams0 == {NoParams, Given(<<>>), Given(<<1>>), Given(<<1, 1>>)}

\* the arguments of the call to come are in last.arg
InitFit ==
    /\ Built({E_X}, {Arr("list", 1, <<>>)}, {None},
             {Pair(DEFAULT_DOMAIN)}, {Pair(DEFAULT_RANGE)}, {NoAttrs})
    /\ \E text \in FitTexts, px \in FitPoints, py \in FitPointsY,
          params0 \in FitParams0, d \in EqIntervals :
          last = [op |-> "arguments",
                  arg |-> [expression |-> text, points_x |-> px, points_y |-> py,
                           params0 |-> params0, domain |-> d, rng |-> d],
                  err |-> "none", ret |-> <<>>]
    /\ history = NoHistory /\ Idle

\* _fit_expression(expression, points_x, points_y, params0, domain, rng)
FitExpression ==
    /\ last.op = "arguments"
    /\ \E f \in _fit_expression(last.arg.expression, last.arg.points_x,
                                last.arg.points_y, last.arg.params0,
                                last.arg.domain, last.arg.rng) :
          last' = Called("_fit_expression", last.arg, f)
    /\ UNCHANGED <<fields, history, elsewhere>>

NextFit == FitExpression

SpecFit == InitFit /\ [][NextFit]_vars

\* the points are as many xs as ys, all within the domain and the range
GoodPoints(a) ==
    /\ Len(a.points_x.elems) = Len(a.points_y.elems)
    /\ \A i \in 1..Len(a.points_x.elems) :
          Lo(a.domain) <= a.points_x.elems[i] /\ a.points_x.elems[i] <= Hi(a.domain)
    /\ \A i \in 1..Len(a.points_y.elems) :
          Lo(a.rng) <= a.points_y.elems[i] /\ a.points_y.elems[i] <= Hi(a.rng)

\* C13: with n >= 1 distinct parameter indices in the expression and fewer
\* than n points, _fit_expression raises CalibrationError and returns
\* nothing; with n = 0, good points and no starting parameters it returns
\* the empty vector, never what the optimizer would give.
C13_UnderdeterminedFit ==
    last.op = "_fit_expression" =>
        LET n == Cardinality(IndexSet(last.arg.expression))
        IN /\ (n >= 1 /\ Len(last.arg.points_x.elems) < n) =>
                 (last.err = "CalibrationError" /\ last.ret = <<>>)
           /\ (n = 0 /\ GoodPoints(last.arg) /\ Len(last.arg.params0.p) = 0) =>
                 (last.err = "none" /\ last.ret = <<>>)

\* the fit of two parameters to one good point has been refused
C13_Witness ==
    /\ last.op = "_fit_expression"
    /\ last.arg.expression = E_LINEAR
    /\ Len(last.arg.points_x.elems) = 1
    /\ GoodPoints(last.arg)
    /\ last.arg.params0 = NoParams
    /\ last.err = "CalibrationError"

-----------------------------------------------------------------------------
(* set_points against add_points on an empty store *)

\* points_x: None, a number, a list of up to two numbers, a nested list
ReplaceArgsX == PointArgs(2)

ReplaceArgsY == PointArgsY(2)

\* set_points(px, py); last.arg keeps the arguments and the number of
\* points that were stored when the call was made
ReplacePoints ==
    \E px \in ReplaceArgsX, py \in ReplaceArgsY :
        \E o \in set_points(Self, px, py) :
            /\ Store(o.c)
            /\ last' = Called("set_points", <<px, py, Len(points_x.elems)>>, o)
            /\ UNCHANGED elsewhere
            /\ history' = IF o.err = "none"
                          THEN [pairs |-> PairsBag(px.elems, py.elems), intact |-> TRUE]
                          ELSE [pairs |-> EmptyBag, intact |-> FALSE]

InitReplace ==
    Constructed({E_X}, {Arr("list", 1, <<>>)}, {None},
                EqIntervals, {Pair(<<0, MaxVal>>)}, {NoAttrs})

NextReplace ==
    \/ ReplacePoints
    \/ AddPoints(SomePointsX, SomePointsY)

SpecReplace == InitReplace /\ [][NextReplace]_vars

\* the Calibration with the points it is constructed with: none
Emptied(c) == [c EXCEPT !.points_x = Arr("ndarray", 1, <<>>),
                        !.points_y = Arr("ndarray", 1, <<>>)]

\* C14: set_points(x, y) ends as add_points(x, y) can end on the same
\* Calibration with no points stored, in what it raises and in the points
\* it leaves, whatever was stored before; set_points() leaves no points.
C14_SetPointsIsAddOnEmpty ==
    (last.op = "set_points" /\ last.arg # <<>>) =>
        /\ \E o \in add_points(Emptied(Self), last.arg[1], last.arg[2]) :
              /\ o.err = last.err
              /\ o.c.points_x.elems = points_x.elems
              /\ o.c.points_y.elems = points_y.elems
        /\ (last.arg[1] = NoneArg /\ last.arg[2] = NoneArg) =>
              /\ last.err = "none"
              /\ points_x.elems = <<>>
              /\ points_y.elems = <<>>

\* set_points has replaced two stored points by one
C14_Witness ==
    /\ last.op = "set_points"
    /\ last.arg # <<>>
    /\ last.arg[3] = 2
    /\ last.err = "none"
    /\ points_x.elems = <<1>>
    /\ points_y.elems = <<MaxVal>>

-----------------------------------------------------------------------------
(* Calibration.copy *)

\* Calibration.copy: the new Calibration is what is returned
copy(c) ==
    {IF o.err = "none" THEN Out(c, "none", o.c) ELSE Out(c, o.err, <<>>) :
        o \in AndThen(Construct(c.expression, Arr("ndarray", 1, c.params),
                                c.inv_expression, Pair(c.domain), Pair(c.range),
                                c.attrs),
                      LAMBDA cal : set_points(cal, cal.points_x, cal.points_y))}

\* cal.copy()
Copy ==
    \E o \in copy(Self) :
        Store(o.c) /\ last' = Called("copy", <<>>, o) /\ UNCHANGED <<history, elsewhere>>

InitCopy ==
    Constructed({E_X, E_SCALE, E_SHIFT}, EqParams, {None, I_Y}, EqIntervals,
                EqIntervals, {NoAttrs, NoteAttrs})

NextCopy ==
    \/ Copy
    \/ SetPoints(SomePointsX, SomePointsY)

SpecCopy == InitCopy /\ [][NextCopy]_vars

\* C15: copy() returns a Calibration with the expression, params,
\* inv_expression, domain, range, attrs and stored points of the original.
C15_CopyIsComplete ==
    last.op = "copy" =>
        /\ last.err = "none"
        /\ last.ret.expression = expression
        /\ last.ret.params = params
        /\ last.ret.inv_expression = inv_expression
        /\ last.ret.domain = domain
        /\ last.ret.range = range
        /\ last.ret.attrs = attrs
        /\ last.ret.points_x.elems = points_x.elems
        /\ last.ret.points_y.elems = points_y.elems

-----------------------------------------------------------------------------
(* attrs and the mapping of the caller it was taken from *)

\* the mappings a caller gives: {}, {"note": [0]}, {"note": [0], "tags": [1]},
\* and {"note": l, "tags": l} for one list l = [0]
AttrArgs ==
    {NoAttrs, NoteAttrs,
     Dict(1, <<Item("note", Obj(2, <<0>>)), Item("tags", Obj(3, <<1>>))>>),
     Dict(1, <<Item("note", Obj(2, <<0>>)), Item("tags", Obj(2, <<0>>))>>)}

\* the ids of the value objects of a dict
ValueIds(d) == {d.items[i].value.id : i \in DOMAIN d.items}

\* the dict after the object id has been given the content v, seen from
\* every reference to that object
SetVal(d, id, v) ==
    Dict(d.id, [i \in DOMAIN d.items |->
                   IF d.items[i].value.id = id
                   THEN Item(d.items[i].key, Obj(id, v))
                   ELSE d.items[i]])

\* the dict after the dict id has been cleared
Clear(d, id) == IF d.id = id THEN Dict(d.id, <<>>) ELSE d

\* Calibration("x", [], **a); last.arg keeps the mapping of the caller
ConstructWith ==
    \E a \in AttrArgs :
        \E o \in Construct(E_X, Arr("list", 1, <<>>), None,
                           Pair(DEFAULT_DOMAIN), Pair(DEFAULT_RANGE), a) :
            /\ IF o.err = "none" THEN Store(o.c) ELSE UNCHANGED fields
            /\ last' = Called("__init__", a, o)
            /\ UNCHANGED elsewhere
            /\ history' = IF o.err = "none" THEN NoHistory ELSE history

\* cal.attrs = a; last.arg keeps the mapping of the caller
AssignAttrs ==
    \E a \in AttrArgs : \E o \in set_attrs(Self, a) :
        Store(o.c) /\ last' = Called("attrs", a, o) /\ UNCHANGED <<history, elsewhere>>

\* the caller changes a list of the mapping given last
MutateValue ==
    /\ last.op \in {"__init__", "attrs", "mutate"}
    /\ last.arg # <<>>
    /\ \E id \in ValueIds(last.arg), v \in SeqsUpTo(Vals, 2) :
          /\ last' = [op |-> "mutate", arg |-> SetVal(last.arg, id, v),
                      err |-> "none", ret |-> <<>>]
          /\ attrs' = SetVal(attrs, id, v)
    /\ UNCHANGED <<expression, params, inv_expression, domain, range,
                   points_x, points_y, history, elsewhere>>

\* the caller clears the mapping given last
MutateMapping ==
    /\ last.op \in {"__init__", "attrs", "mutate"}
    /\ last.arg # <<>>
    /\ last' = [op |-> "mutate", arg |-> Clear(last.arg, last.arg.id),
                err |-> "none", ret |-> <<>>]
    /\ attrs' = Clear(attrs, last.arg.id)
    /\ UNCHANGED <<expression, params, inv_expression, domain, range,
                   points_x, points_y, history, elsewhere>>

InitAttrs ==
    Constructed({E_X}, {Arr("list", 1, <<>>)}, {None},
                {Pair(DEFAULT_DOMAIN)}, {Pair(DEFAULT_RANGE)}, AttrInputs)

NextAttrs ==
    \/ ConstructWith
    \/ AssignAttrs
    \/ MutateValue
    \/ MutateMapping

SpecAttrs == InitAttrs /\ [][NextAttrs]_vars

\* C18: attrs says what the mapping given at construction or assignment
\* said, and no later change the caller makes to that mapping or to a value
\* in it changes attrs.
C18_AttrsDeepCopied ==
    [][/\ (last'.op \in {"__init__", "attrs"} /\ last'.err = "none")
              => Content(attrs') = Content(last'.arg)
       /\ last'.op = "mutate" => attrs' = attrs]_vars

\* the caller has changed a list of the mapping given, and attrs still
\* says what the mapping said
C18_Witness ==
    /\ last.op = "mutate"
    /\ Content(last.arg) = <<<<"note", <<1>>>>>>
    /\ Content(attrs) = <<<<"note", <<0>>>>>>

-----------------------------------------------------------------------------
(* Calibration.write and Calibration.read, over a store that gives back   *)
(* what it was given                                                      *)

\* io.h5.write_h5(name, dsets, attrs): what the store then holds under name
write_h5(dsets, attributes) == [dsets |-> dsets, attrs |-> attributes]

\* io.h5.read_h5(name): the datasets and the attributes held under name
read_h5(store) == store

\* Calibration.write: the store it leaves
write(c) ==
    LET always == [expression |-> c.expression, params |-> c.params,
                   domain |-> c.domain, range |-> c.range,
                   points_x |-> c.points_x, points_y |-> c.points_y]
        dsets == IF c.inv_expression # None
                 THEN always @@ [inv_expression |-> c.inv_expression]
                 ELSE always
    IN write_h5(dsets, deepcopy(c.attrs))

DatasetNames ==
    {"expression", "params", "inv_expression", "domain", "range",
     "points_x", "points_y"}

\* read without the check for unexpected dataset names
NoUnexpectedCheck_read(store) ==
    LET dsets == read_h5(store).dsets
        stored == read_h5(store).attrs
        names == DOMAIN dsets
    IN IF "params" \notin names THEN {Raise("CalibrationError")}
       ELSE IF "expression" \notin names THEN {Raise("CalibrationError")}
       ELSE IF "domain" \notin names THEN {Raise("CalibrationError")}
       ELSE IF "range" \notin names THEN {Raise("CalibrationError")}
       ELSE LET inv_expr == IF "inv_expression" \in names
                            THEN dsets["inv_expression"] ELSE None
                kwargs == Dict(0, <<Item("range", Obj(0, dsets["range"]))>>
                                      \o stored.items)
                made == Construct(dsets["expression"],
                                  Arr("ndarray", 1, dsets["params"]), inv_expr,
                                  Pair(dsets["domain"]), Pair(DEFAULT_RANGE), kwargs)
                cals == IF "points_x" \in names /\ "points_y" \in names
                        THEN AndThen(made, LAMBDA cal :
                                 set_points(cal, dsets["points_x"], dsets["points_y"]))
                        ELSE made
            IN {IF o.err = "none" THEN Ok(o.c) ELSE Raise(o.err) : o \in cals}

\* Calibration.read: the Calibration it returns.  The call of the
\* constructor names the range "range", which is no parameter of __init__:
\* it lands in **attrs, and rng keeps its default.
read(store) ==
    LET dsets == read_h5(store).dsets
        stored == read_h5(store).attrs
        names == DOMAIN dsets
    IN IF "params" \notin names THEN {Raise("CalibrationError")}
       ELSE IF "expression" \notin names THEN {Raise("CalibrationError")}
       ELSE IF "domain" \notin names THEN {Raise("CalibrationError")}
       ELSE IF "range" \notin names THEN {Raise("CalibrationError")}
       ELSE IF names \ DatasetNames # {} THEN {Raise("CalibrationError")}
       ELSE LET inv_expr == IF "inv_expression" \in names
                            THEN dsets["inv_expression"] ELSE None
                kwargs == Dict(0, <<Item("range", Obj(0, dsets["range"]))>>
                                      \o stored.items)
                made == Construct(dsets["expression"],
                                  Arr("ndarray", 1, dsets["params"]), inv_expr,
                                  Pair(dsets["domain"]), Pair(DEFAULT_RANGE), kwargs)
                cals == IF "points_x" \in names /\ "points_y" \in names
                        THEN AndThen(made, LAMBDA cal :
                                 set_points(cal, dsets["points_x"], dsets["points_y"]))
                        ELSE made
            IN {IF o.err = "none" THEN Ok(o.c) ELSE Raise(o.err) : o \in cals}

\* the store with the datasets named in keep only, and one more dataset
\* "spectrum" when extra
Tamper(store, keep, extra) ==
    LET kept == [n \in (DOMAIN store.dsets) \cap keep |-> store.dsets[n]]
    IN [store EXCEPT !.dsets = IF extra THEN kept @@ [spectrum |-> <<>>]
                                ELSE kept]

MaxGone == 1

\* cal.write(name)
Write ==
    /\ last' = [op |-> "write", arg |-> <<>>, err |-> "none", ret |-> write(Self)]
    /\ UNCHANGED <<fields, history, elsewhere>>

\* Calibration.read(name), right after cal.write(name)
ReadBack ==
    /\ last.op = "write"
    /\ \E o \in read(last.ret) :
          last' = Called("read(write(cal))", <<>>, o)
    /\ UNCHANGED <<fields, history, elsewhere>>

\* Calibration.read(name) of a store that holds the datasets cal would
\* write but at most MaxGone of them, and maybe one more
Read ==
    \E gone \in {g \in SUBSET DatasetNames : Cardinality(g) <= MaxGone},
       extra \in BOOLEAN :
        LET store == Tamper(write(Self), DatasetNames \ gone, extra)
        IN /\ \E o \in read(store) : last' = Called("read", store, o)
           /\ UNCHANGED <<fields, history, elsewhere>>

InitStore ==
    Constructed({E_SCALE}, {Arr("list", 1, <<1>>), Arr("list", 1, <<2>>)},
                {None, I_Y}, {Pair(DEFAULT_DOMAIN)}, EqIntervals, AttrInputs)

NextStore ==
    \/ Write
    \/ ReadBack
    \/ Read
    \/ SetPoints({Arr("list", 1, <<0, 1>>)}, {Arr("list", 1, <<1, 0>>)})

SpecStore == InitStore /\ [][NextStore]_vars

\* C16: the Calibration read back from what cal has written has the
\* expression, params, inv_expression, domain, range, points and attrs of
\* cal.
C16_WriteReadRoundTrip ==
    last.op = "read(write(cal))" =>
        /\ last.err = "none"
        /\ last.ret.expression = expression
        /\ last.ret.params = params
        /\ last.ret.inv_expression = inv_expression
        /\ last.ret.domain = domain
        /\ last.ret.range = range
        /\ last.ret.points_x.elems = points_x.elems
        /\ last.ret.points_y.elems = points_y.elems
        /\ Content(last.ret.attrs) = Content(attrs)

\* C17: read raises CalibrationError and returns no Calibration when the
\* store lacks expression, params, domain or range, or holds a dataset
\* whose name is none of the seven.
C17_StrictSchema ==
    (last.op = "read"
        /\ \/ {"expression", "params", "domain", "range"} \ DOMAIN last.arg.dsets # {}
           \/ DOMAIN last.arg.dsets \ DatasetNames # {})
    => (last.err = "CalibrationError" /\ last.ret = <<>>)

\* a store with the seven datasets and one more has been refused
C17_Witness ==
    /\ last.op = "read"
    /\ DOMAIN last.arg.dsets = DatasetNames \cup {"spectrum"}
    /\ last.err = "CalibrationError"

-----------------------------------------------------------------------------
(* _polynomial_expression and Calibration.from_polynomial                 *)

\* the text with one term per coefficient less than the code writes
DropsLast_polynomial_expression(p) ==
    LET order == Len(p.elems) - 1
    IN IF order <= 0 THEN Raise("CalibrationError")
       ELSE Ok(Text(<<Term(1, <<0>>, "", 0)>>
                        \o [n \in 1..(order - 1) |-> Term(1, <<n>>, "x", n)]))

\* "p[0] + p[1] * x ** 1 + ... + p[order] * x ** order"
_polynomial_expression(p) ==
    LET order == Len(p.elems) - 1
    IN IF order <= 0 THEN Raise("CalibrationError")
       ELSE Ok(Text(<<Term(1, <<0>>, "", 0)>>
                        \o [n \in 1..order |-> Term(1, <<n>>, "x", n)]))

from_polynomial(p, dom, rng, a) ==
    LET expr == _polynomial_expression(p)
    IN IF expr.err # "none" THEN {Out(<<>>, expr.err, <<>>)}
       ELSE Construct(expr.ret, p, None, dom, rng, a)

MaxCoeffs == 3

PolyParams == {Arr("list", 1, s) : s \in SeqsUpTo(Vals, MaxCoeffs)}

PolyDomains == {Pair(<<0, MaxVal>>)}

PolyRanges == {Pair(DEFAULT_RANGE), Pair(<<0, MaxVal>>)}

PolyX ==
    {Arr("float", 0, <<v>>) : v \in Vals} \cup {Arr("list", 1, <<0, MaxVal>>)}

\* cal = Calibration.from_polynomial(p, domain=dom, rng=rng)
FromPolynomial ==
    \E p \in PolyParams, dom \in PolyDomains, rng \in PolyRanges :
        \E o \in from_polynomial(p, dom, rng, NoAttrs) :
            /\ IF o.err = "none" THEN Store(o.c) ELSE UNCHANGED fields
            /\ last' = Called("from_polynomial", p, o)
            /\ UNCHANGED elsewhere
            /\ history' = IF o.err = "none" THEN NoHistory ELSE history

\* Calibration("p[0] + p[1] * x", [1, 1]): the text from_polynomial writes
\* for two parameters
InitPoly ==
    Constructed({E_LINEAR}, {Arr("list", 1, <<1, 1>>)}, {None}, PolyDomains,
                PolyRanges, {NoAttrs})

NextPoly ==
    \/ FromPolynomial
    \/ Call(PolyX)

SpecPoly == InitPoly /\ [][NextPoly]_vars

\* the sum of p[k] * v ** (k - 1) over k in 1..n
RECURSIVE PolySum(_, _, _)
PolySum(p, v, n) ==
    IF n = 0 THEN 0 ELSE PolySum(p, v, n - 1) + p[n] * Power(v, n - 1)

\* C19: from_polynomial of n + 1 >= 2 parameters makes a Calibration whose
\* expression names exactly the indices 0..n and whose value at each x of
\* the domain is the sum of params[k] * x ** k clipped to the range; with
\* fewer than 2 parameters it raises CalibrationError.
C19_Polynomial ==
    /\ (last.op = "from_polynomial" /\ Len(last.arg.elems) >= 2) =>
           /\ last.err = "none"
           /\ params = last.arg.elems
           /\ IndexSet(expression) = 0..(Len(params) - 1)
    /\ (last.op = "from_polynomial" /\ Len(last.arg.elems) < 2) =>
           last.err = "CalibrationError"
    /\ (last.op = "__call__"
            /\ \A i \in 1..Len(last.arg.elems) :
                   last.arg.elems[i] \in domain[1]..domain[2]) =>
           /\ last.err = "none"
           /\ Len(last.ret.elems) = Len(last.arg.elems)
           /\ \A i \in 1..Len(last.arg.elems) :
                  last.ret.elems[i] =
                      clip(PolySum(params, last.arg.elems[i], Len(params)),
                           range[1], range[2])

\* 0 + 0 * x + 1 * x ** 2 at x = MaxVal has been clipped to the top of the
\* range
C19_Witness ==
    /\ last.op = "__call__"
    /\ params = <<0, 0, 1>>
    /\ last.arg.elems = <<MaxVal>>
    /\ last.ret.elems = <<range[2]>>
    /\ MaxVal * MaxVal > range[2]

\* one parameter has been refused
C19_WitnessTooFew ==
    /\ last.op = "from_polynomial"
    /\ Len(last.arg.elems) = 1
    /\ last.err = "CalibrationError"

-----------------------------------------------------------------------------
(* Calibration.fit_points and Calibration.from_points                     *)

Origin == Arr("int", 0, <<0>>)

\* fit_points that never adds the origin
NoOrigin_fit_points(c, px, py, params0, include_origin) ==
    AndThen(set_points(c, px, py), LAMBDA c1 :
        AndThen(IF params0.type # "NoneType" THEN set_params(c1, params0)
                ELSE {Out(c1, "none", <<>>)},
                LAMBDA c2 : fit(c2)))

fit_points(c, px, py, params0, include_origin) ==
    AndThen(set_points(c, px, py), LAMBDA c1 :
        AndThen(IF include_origin THEN add_points(c1, Origin, Origin)
                ELSE {Out(c1, "none", <<>>)},
                LAMBDA c2 :
            AndThen(IF params0.type # "NoneType" THEN set_params(c2, params0)
                    ELSE {Out(c2, "none", <<>>)},
                    LAMBDA c3 : fit(c3))))

\* from_points from its second _check_points on: pts are the points after
\* np.append(0, ...)
from_points_checked(text, pts, params0, dom, rng, a) ==
    UNION {
        IF cp.err # "none" THEN {Out(<<>>, cp.err, <<>>)}
        ELSE UNION {
            IF f.err # "none" THEN {Out(<<>>, f.err, <<>>)}
            ELSE AndThen(Construct(text, Arr("ndarray", 1, f.ret), None, dom, rng, a),
                         LAMBDA cal : set_points(cal, cp.ret[1], cp.ret[2]))
            : f \in _fit_expression(text, cp.ret[1], cp.ret[2], params0, dom, rng)}
        : cp \in _check_points(pts[1], pts[2], <<Lo(dom), Hi(dom)>>, <<Lo(rng), Hi(rng)>>)}

from_points(text, px, py, params0, include_origin, dom, rng, a) ==
    UNION {
        IF cp.err # "none" THEN {Out(<<>>, cp.err, <<>>)}
        ELSE from_points_checked(text,
                 IF include_origin
                 THEN <<append(Origin, cp.ret[1]), append(Origin, cp.ret[2])>>
                 ELSE cp.ret,
                 params0, dom, rng, a)
        : cp \in _check_points(px, py, <<Lo(dom), Hi(dom)>>, <<Lo(rng), Hi(rng)>>)}

\* the points given, as <<points_x, points_y>>: one point as two scalars,
\* none, one, two in and out of order, two at the same x, and lists of
\* different lengths
FitPointArgs ==
    {<<Arr("float", 0, <<1>>), Arr("float", 0, <<1>>)>>,
     <<Arr("list", 1, <<>>), Arr("list", 1, <<>>)>>,
     <<Arr("list", 1, <<0>>), Arr("list", 1, <<0>>)>>,
     <<Arr("list", 1, <<0, 1>>), Arr("list", 1, <<0, 1>>)>>,
     <<Arr("list", 1, <<1, 0>>), Arr("list", 1, <<1, 0>>)>>,
     <<Arr("list", 1, <<1, 1>>), Arr("list", 1, <<0, 1>>)>>,
     <<Arr("list", 1, <<0, 1>>), Arr("list", 1, <<1>>)>>}

\* cal.fit_points(px, py, params0, include_origin); last.arg keeps the
\* arguments and how many points cal held before
CallFitPoints ==
    \E pts \in FitPointArgs, origin \in BOOLEAN,
       params0 \in {NoneArg, Arr("list", 1, <<1>>)} :
        \E o \in fit_points(Self, pts[1], pts[2], params0, origin) :
            /\ Store(o.c)
            /\ last' = Called("fit_points",
                              [points_x |-> pts[1], points_y |-> pts[2],
                               include_origin |-> origin,
                               before |-> Len(points_x.elems)], o)
            /\ UNCHANGED <<history, elsewhere>>

\* cal = Calibration.from_points(text, px, py, params0, include_origin)
\* has raised nothing
FromPoints ==
    \E text \in {E_SCALE}, pts \in FitPointArgs,
       origin \in BOOLEAN, params0 \in {NoParams, Given(<<1>>)} :
        \E o \in from_points(text, pts[1], pts[2], params0, origin,
                             Pair(DEFAULT_DOMAIN), Pair(DEFAULT_RANGE), NoAttrs) :
            /\ o.err = "none"
            /\ expression = o.c.expression
            /\ params = o.c.params
            /\ inv_expression = o.c.inv_expression
            /\ domain = o.c.domain
            /\ range = o.c.range
            /\ points_x = o.c.points_x
            /\ points_y = o.c.points_y
            /\ attrs = o.c.attrs
            /\ last = Called("from_points",
                             [points_x |-> pts[1], points_y |-> pts[2],
                              include_origin |-> origin, before |-> 0], o)
            /\ history = NoHistory /\ Idle

\* the Calibration was made by the constructor or by from_points
InitFitPoints ==
    \/ Constructed({E_SCALE}, {Arr("list", 1, <<1>>)}, {None},
                   {Pair(DEFAULT_DOMAIN)}, {Pair(DEFAULT_RANGE)}, {NoAttrs})
    \/ FromPoints

NextFitPoints == CallFitPoints

SpecFitPoints == InitFitPoints /\ [][NextFitPoints]_vars

\* the pairs a call was given, and the origin when it was asked for
Supplied(a) ==
    PairsBag(atleast_1d(a.points_x).elems, atleast_1d(a.points_y).elems)
        (+) (IF a.include_origin THEN SetToBag({<<0, 0>>}) ELSE EmptyBag)

\* C20: after a fit_points or from_points that raised nothing, the stored
\* points are the points given, and the point (0, 0) when include_origin,
\* in ascending order of x; what was stored before is gone.
C20_FittedPoints ==
    (last.op \in {"fit_points", "from_points"} /\ last.err = "none") =>
        /\ Ascending(points_x.elems)
        /\ Len(points_x.elems) = Len(points_y.elems)
        /\ PairsBag(points_x.elems, points_y.elems) = Supplied(last.arg)

\* fit_points with include_origin on a Calibration that held points, given
\* a point at x = 1 only, has left the origin and that point
C20_Witness ==
    /\ last.op = "fit_points"
    /\ last.err = "none"
    /\ last.arg.include_origin
    /\ last.arg.before > 0
    /\ points_x.elems = <<0, 1>>
    /\ points_y.elems = <<0, 1>>

\* from_points with include_origin has made a Calibration holding the
\* origin and the point given
C20_WitnessFromPoints ==
    /\ last.op = "from_points"
    /\ last.err = "none"
    /\ last.arg.include_origin
    /\ points_x.elems = <<0, 1>>

-----------------------------------------------------------------------------
(* becquerel/core/energycal.py: EnergyCalBase and LinearEnergyCal.  A     *)
(* dict is the sequence of its items in the order of insertion.           *)

\* k in d
contains(d, k) == \E i \in 1..Len(d) : d[i].key = k

\* d[k] = v: the value of an existing key is replaced in place
setitem(d, k, v) ==
    IF contains(d, k)
    THEN [i \in 1..Len(d) |-> IF d[i].key = k THEN Item(k, v) ELSE d[i]]
    ELSE Append(d, Item(k, v))

\* del d[k]
delitem(d, k) == SelectSeq(d, LAMBDA it : it.key # k)

\* handle_unc(ch, ch_unc, np.nan): the channel with its uncertainty
handle_unc(ch, ch_unc) == [n |-> ch, s |-> ch_unc]

\* np.nan, the uncertainty of a channel given without one
nan == "nan"

\* float(kev) of a Python number: the same number
float(kev) == kev.elems[1]

\* the EnergyCalBase object and what the call raised
Cal(cp, co, err) == [_calpoints |-> cp, _coeffs |-> co, err |-> err]

EnergyCal == [_calpoints |-> _calpoints, _coeffs |-> _coeffs]

add_calpoint(cal, ch, kev, ch_unc) ==
    Cal(setitem(cal._calpoints, float(kev), handle_unc(ch, ch_unc)),
        cal._coeffs, "none")

\* new_calpoint without the check for an existing energy
NoCheck_new_calpoint(cal, ch, kev, ch_unc) == add_calpoint(cal, ch, kev, ch_unc)

new_calpoint(cal, ch, kev, ch_unc) ==
    IF contains(cal._calpoints, float(kev))
    THEN Cal(cal._calpoints, cal._coeffs, "EnergyCalError")
    ELSE add_calpoint(cal, ch, kev, ch_unc)

rm_calpoint(cal, kev) ==
    IF contains(cal._calpoints, float(kev))
    THEN Cal(delitem(cal._calpoints, float(kev)), cal._coeffs, "none")
    ELSE Cal(cal._calpoints, cal._coeffs, "none")

\* the energies given: every number of the grid as a float, one as an int
KevInputs == {Arr("float", 0, <<v>>) : v \in Vals} \cup {Arr("int", 0, <<1>>)}

ChInputs == {0, MaxVal}

\* what a call on the energy calibration leaves alone
calibration == <<fields, history, symtable, error, evals>>

StoreCal(o) == _calpoints' = o._calpoints /\ _coeffs' = o._coeffs

CalCalled(op, arg, o) == [op |-> op, arg |-> arg, err |-> o.err, ret |-> <<>>]

AddCalpoint ==
    \E ch \in ChInputs, kev \in KevInputs :
        LET o == add_calpoint(EnergyCal, ch, kev, nan)
        IN /\ StoreCal(o)
           /\ last' = CalCalled("add_calpoint", <<ch, kev>>, o)
           /\ UNCHANGED calibration

NewCalpoint ==
    \E ch \in ChInputs, kev \in KevInputs :
        LET o == new_calpoint(EnergyCal, ch, kev, nan)
        IN /\ StoreCal(o)
           /\ last' = CalCalled("new_calpoint", <<ch, kev>>, o)
           /\ UNCHANGED calibration

RmCalpoint ==
    \E kev \in KevInputs :
        LET o == rm_calpoint(EnergyCal, kev)
        IN /\ StoreCal(o)
           /\ last' = CalCalled("rm_calpoint", <<kev>>, o)
           /\ UNCHANGED calibration

\* cal = LinearEnergyCal()
InitEnergyCal ==
    Constructed({E_X}, {Arr("list", 1, <<>>)}, {None},
                {Pair(DEFAULT_DOMAIN)}, {Pair(DEFAULT_RANGE)}, {NoAttrs})

NextCalpoints ==
    \/ NewCalpoint
    \/ AddCalpoint
    \/ RmCalpoint

SpecCalpoints == InitEnergyCal /\ [][NextCalpoints]_vars

\* no two of the calibration points are at the same energy
OnePerEnergy(cp) == \A i, j \in 1..Len(cp) : cp[i].key = cp[j].key => i = j

\* C21: new_calpoint(ch, kev) raises EnergyCalError and leaves the points
\* as they are when there is a point at energy kev; otherwise it adds the
\* point (ch, kev) and nothing else; and whatever new_calpoint,
\* add_calpoint and rm_calpoint calls were made, no two points are at the
\* same energy.
C21_NewCalpoint ==
    [][/\ last'.op = "new_calpoint" =>
              IF \E i \in 1..Len(_calpoints) :
                     _calpoints[i].key = last'.arg[2].elems[1]
              THEN last'.err = "EnergyCalError" /\ _calpoints' = _calpoints
              ELSE /\ last'.err = "none"
                   /\ _calpoints' = _calpoints \o
                          <<Item(last'.arg[2].elems[1],
                                 [n |-> last'.arg[1], s |-> nan])>>
       /\ OnePerEnergy(_calpoints')]_vars

\* new_calpoint with the int 1 has been refused: there is a point at 1.0
C21_Witness ==
    /\ last.op = "new_calpoint"
    /\ last.arg[2] = Arr("int", 0, <<1>>)
    /\ last.err = "EnergyCalError"
    /\ Len(_calpoints) = 2

-----------------------------------------------------------------------------
(* EnergyCalBase.update_fit and LinearEnergyCal._perform_fit              *)

\* LinearEnergyCal.valid_coeffs
valid_coeffs == <<"b", "c">>

_set_coeff(cal, name, val) ==
    IF \E i \in 1..Len(valid_coeffs) : valid_coeffs[i] = name
    THEN Cal(cal._calpoints, setitem(cal._coeffs, name, val), "none")
    ELSE Cal(cal._calpoints, cal._coeffs, "EnergyCalError")

\* np.polyfit(x, y, 1, w=1/sig): some <<slope_inverse, offset_inverse>>; the
\* slope of the line through the points may be zero
polyfit(x, y) == {<<0, 1>>, <<1, 1>>}

\* a / b of numpy floats: inf or nan, and a warning, when b is zero
Divide(a, b) ==
    IF b # 0 THEN Num(a \div b)
    ELSE IF a = 0 THEN [v |-> 0, fin |-> FALSE] ELSE NonFinite

\* every outcome of LinearEnergyCal._perform_fit
_perform_fit(cal) ==
    LET x == [i \in 1..Len(cal._calpoints) |-> cal._calpoints[i].key]
        y == [i \in 1..Len(cal._calpoints) |-> cal._calpoints[i].value.n]
    IN {LET slope == Divide(1, r[1])
            offset == Divide(0 - r[2], r[1])
            b == _set_coeff(cal, "b", slope)
        IN IF b.err # "none" THEN b ELSE _set_coeff(b, "c", offset)
           : r \in polyfit(x, y)}

\* update_fit without the check that the points are as many as the
\* coefficients
NoCountCheck_update_fit(cal) ==
    IF Len(cal._calpoints) = 0
    THEN {Cal(cal._calpoints, cal._coeffs, "EnergyCalError")}
    ELSE _perform_fit(cal)

update_fit(cal) ==
    LET num_coeffs == Len(valid_coeffs)
        num_points == Len(cal._calpoints)
    IN IF num_points = 0
       THEN {Cal(cal._calpoints, cal._coeffs, "EnergyCalError")}
       ELSE IF num_points < num_coeffs
       THEN {Cal(cal._calpoints, cal._coeffs, "EnergyCalError")}
       ELSE _perform_fit(cal)

UpdateFit ==
    \E o \in update_fit(EnergyCal) :
        /\ StoreCal(o)
        /\ last' = CalCalled("update_fit", <<>>, o)
        /\ UNCHANGED calibration

NextUpdateFit ==
    \/ UpdateFit
    \/ AddCalpoint
    \/ RmCalpoint

SpecUpdateFit == InitEnergyCal /\ [][NextUpdateFit]_vars

\* C22: update_fit of a LinearEnergyCal raises EnergyCalError and leaves
\* the coefficients as they are when there are fewer than 2 calibration
\* points, none included; otherwise it raises nothing and b and c are set
\* afterwards.
C22_UpdateFit ==
    [][last'.op = "update_fit" =>
          IF Len(_calpoints) < 2
          THEN last'.err = "EnergyCalError" /\ _coeffs' = _coeffs
          ELSE /\ last'.err = "none"
               /\ \E i \in 1..Len(_coeffs') : _coeffs'[i].key = "b"
               /\ \E i \in 1..Len(_coeffs') : _coeffs'[i].key = "c"]_vars

\* update_fit has been refused with one point left, and the coefficients
\* of an earlier fit are still there
C22_Witness ==
    /\ last.op = "update_fit"
    /\ last.err = "EnergyCalError"
    /\ Len(_calpoints) = 1
    /\ Len(_coeffs) = 2

-----------------------------------------------------------------------------
(* EnergyCalBase.from_points                                              *)

\* bool(a), and bool(len(a)) of an array: None, the number 0 and what is
\* empty are false
bool(a) ==
    IF a.type = "NoneType" THEN FALSE
    ELSE IF a.ndim = 0 THEN a.elems[1] # 0
    ELSE Len(a.elems) > 0

\* isinstance(a, (list, tuple, np.ndarray))
IsIterable(a) == a.type \in {"list", "tuple", "ndarray"}

\* handle_uncs(chlist, ch_uncs, ...) without ch_uncs: the channels, each to
\* get its uncertainty when the point is added
handle_uncs(chlist) == chlist.elems

zip(a, b) ==
    [i \in 1..(IF Len(a) < Len(b) THEN Len(a) ELSE Len(b)) |-> <<a[i], b[i]>>]

\* for ch, kev in pairs: cal.new_calpoint(ch, kev)
RECURSIVE new_calpoints(_, _)
new_calpoints(cal, pairs) ==
    IF pairs = <<>> THEN cal
    ELSE IF Len(Head(pairs)) # 2
    THEN Cal(cal._calpoints, cal._coeffs, "ValueError")
    ELSE LET o == new_calpoint(cal, Head(pairs)[1],
                               Arr("float", 0, <<Head(pairs)[2]>>), nan)
         IN IF o.err # "none" THEN o ELSE new_calpoints(o, Tail(pairs))

\* cls(): no points, no coefficients
Empty == Cal(<<>>, <<>>, "none")

BadInput == Cal(<<>>, <<>>, "BadInput")

\* EnergyCalBase.from_points(chlist, None, kevlist, pairlist): the
\* calibration made, or what was raised
EnergyCal_from_points(chlist, kevlist, pairlist) ==
    LET has_pair == bool(pairlist)
        has_ch == bool(chlist)
        has_kev == bool(kevlist)
    IN IF has_pair /\ (has_ch \/ has_kev) THEN BadInput
       ELSE IF (has_ch /\ ~has_kev) \/ (has_kev /\ ~has_ch) THEN BadInput
       ELSE IF ~has_ch /\ ~has_kev /\ ~has_pair THEN BadInput
       ELSE IF has_ch /\ has_kev
       THEN IF ~IsIterable(chlist) \/ ~IsIterable(kevlist) THEN BadInput
            ELSE IF Len(chlist.elems) # Len(kevlist.elems) THEN BadInput
            ELSE new_calpoints(Empty, zip(handle_uncs(chlist), kevlist.elems))
       ELSE IF pairlist.ndim = 0 THEN Cal(<<>>, <<>>, "TypeError")
       ELSE IF pairlist.ndim = 1 THEN BadInput
       ELSE new_calpoints(Empty, pairlist.elems)

\* a list of tuples
Tuples(s) == Arr("list", 2, s)

ChLists ==
    {NoneArg, Arr("float", 0, <<1>>), Arr("int", 0, <<0>>)}
        \cup {Arr("list", 1, s) : s \in SeqsUpTo({0, MaxVal}, 2)}

KevLists ==
    {NoneArg, Arr("float", 0, <<1>>), Arr("int", 0, <<0>>)}
        \cup {Arr("list", 1, s) : s \in SeqsUpTo(Vals, 2)}

PairLists ==
    {NoneArg, Arr("int", 0, <<1>>), Arr("list", 1, <<>>), Arr("list", 1, <<0, 1>>),
     Tuples(<<<<0, 1>>>>), Tuples(<<<<0, 1>>, <<MaxVal, 0>>>>),
     Tuples(<<<<0, 1>>, <<MaxVal, 1>>>>), Tuples(<<<<0, 1, 1>>>>)}

\* the arguments of the call to come are in last.arg
InitFromPoints ==
    /\ Built({E_X}, {Arr("list", 1, <<>>)}, {None},
             {Pair(DEFAULT_DOMAIN)}, {Pair(DEFAULT_RANGE)}, {NoAttrs})
    /\ \E chlist \in ChLists, kevlist \in KevLists, pairlist \in PairLists :
          last = [op |-> "arguments",
                  arg |-> [chlist |-> chlist, kevlist |-> kevlist,
                           pairlist |-> pairlist],
                  err |-> "none", ret |-> <<>>]
    /\ history = NoHistory /\ Idle

\* cal = LinearEnergyCal.from_points(chlist=..., kevlist=..., pairlist=...)
EnergyCalFromPoints ==
    /\ last.op = "arguments"
    /\ LET o == EnergyCal_from_points(last.arg.chlist, last.arg.kevlist,
                                      last.arg.pairlist)
       IN /\ IF o.err = "none" THEN StoreCal(o)
             ELSE UNCHANGED <<_calpoints, _coeffs>>
          /\ last' = CalCalled("from_points", last.arg, o)
    /\ UNCHANGED calibration

NextFromPoints == EnergyCalFromPoints

SpecFromPoints == InitFromPoints /\ [][NextFromPoints]_vars

\* the (channel, energy) pairs a call of from_points was given
GivenPairs(a) ==
    IF bool(a.pairlist) THEN a.pairlist.elems
    ELSE zip(a.chlist.elems, a.kevlist.elems)

\* C23: what from_points raises is a BadInput, and the calibration it
\* returns holds one calibration point for each pair given.
C23_FromPointsBadInput ==
    last.op = "from_points" =>
        IF last.err # "none" THEN last.err = "BadInput"
        ELSE /\ Len(_calpoints) = Len(GivenPairs(last.arg))
             /\ \A i \in 1..Len(_calpoints) :
                    /\ _calpoints[i].key = GivenPairs(last.arg)[i][2]
                    /\ _calpoints[i].value.n = GivenPairs(last.arg)[i][1]

-----------------------------------------------------------------------------
(* what a call that raised leaves behind *)

\* C24: when add_points or set_points raises CalibrationError, the stored
\* points are what they were before the call.
C24_FailedPointsKept ==
    [][(last'.op \in {"add_points", "set_points"}
            /\ last'.err = "CalibrationError")
          => /\ points_x'.elems = points_x.elems
             /\ points_y'.elems = points_y.elems]_vars

InitFitInPlace ==
    Constructed({E_SCALE, E_LINEAR},
                {Arr("list", 1, <<1>>), Arr("list", 1, <<1, 1>>)}, {None},
                {Pair(DEFAULT_DOMAIN)}, {Pair(DEFAULT_RANGE)}, {NoAttrs})

NextFitInPlace ==
    \/ Fit
    \/ SetPoints(SomePointsX, SomePointsY)
    \/ SetExpression(FitTexts)

SpecFitInPlace == InitFitInPlace /\ [][NextFitInPlace]_vars

\* C25: a fit() that raises nothing replaces params by a vector of the
\* same length and changes no other field; a fit() that raises changes no
\* field at all.
C25_FitInPlace ==
    [][last'.op = "fit" =>
          IF last'.err = "none"
          THEN /\ Len(params') = Len(params)
               /\ UNCHANGED <<expression, inv_expression, domain, range,
                              points_x, points_y, attrs>>
          ELSE UNCHANGED fields]_vars

\* a fit to two points has replaced the parameter 1 by 2
C25_Witness ==
    /\ last.op = "fit"
    /\ last.err = "none"
    /\ params = <<2>>
    /\ Len(points_x.elems) = 2

\* a fit has failed on a Calibration that has parameters
C25_WitnessFailed ==
    /\ last.op = "fit"
    /\ last.err = "CalibrationError"
    /\ params = <<1, 1>>

\* C26: when fit_points raises, the stored points and params are what they
\* were before the call.
C26_FailedFitPointsKept ==
    [][(last'.op = "fit_points" /\ last'.err # "none")
          => /\ points_x'.elems = points_x.elems
             /\ points_y'.elems = points_y.elems
             /\ params' = params]_vars

-----------------------------------------------------------------------------
(* the interpreter shared by every evaluation: safe_eval.symtable and     *)
(* safe_eval.error as state                                               *)

\* _eval_expression gets as far as binding p and the independent variable
Binds(x, ind_var, dom, rng) ==
    /\ _validate_domain_range(dom, rng).err = "none"
    /\ \A i \in 1..Len(x.elems) : Lo(dom) <= x.elems[i] /\ x.elems[i] <= Hi(dom)
    /\ ind_var \in {"x", "y"}

\* safe_eval.symtable after _eval_expression(text, p, x, ind_var, dom, rng)
symtable_after(p, x, ind_var, dom, rng, sym) ==
    IF Binds(x, ind_var, dom, rng)
    THEN Bind(sym, p, ind_var, Arr("ndarray", x.ndim, x.elems))
    ELSE sym

\* safe_eval.error after the same call: safe_eval(expression) empties the
\* list and enters what goes wrong
error_after(text, p, x, ind_var, dom, rng, sym, err) ==
    IF ~Binds(x, ind_var, dom, rng) THEN err
    ELSE IF safe_eval(text, symtable_after(p, x, ind_var, dom, rng, sym)).err
    THEN <<"error">>
    ELSE <<>>

\* "x + y": a text that names both variables
E_X_PLUS_Y == Text(<<Term(1, <<>>, "x", 1), Term(1, <<>>, "y", 1)>>)

\* "y"
E_Y == Text(<<Term(1, <<>>, "y", 1)>>)

InterpTexts == {E_X, E_Y, E_SCALE, E_X_PLUS_Y}

InterpParams == {<<>>, <<1>>, <<MaxVal>>}

InterpX == {Arr("float", 0, <<v>>) : v \in Vals}

\* _eval_expression(text, p, x, ind_var) on the shared interpreter
EvalExpression ==
    \E text \in InterpTexts, p \in InterpParams, x \in InterpX,
       ind_var \in {"x", "y"} :
        LET dom == Pair(<<0, MaxVal>>)
            rng == Pair(<<0, MaxVal>>)
            y == _eval_expression(text, p, x, ind_var, dom, rng, symtable)
        IN /\ last' = [op |-> "_eval_expression",
                       arg |-> [expression |-> text, params |-> p, x |-> x,
                                ind_var |-> ind_var, domain |-> dom, rng |-> rng],
                       err |-> y.err, ret |-> y.ret]
           /\ symtable' = symtable_after(p, x, ind_var, dom, rng, symtable)
           /\ error' = error_after(text, p, x, ind_var, dom, rng, symtable, error)
           /\ UNCHANGED <<fields, history, evals, _calpoints, _coeffs>>

InitInterp ==
    Constructed({E_X}, {Arr("list", 1, <<>>)}, {None},
                {Pair(DEFAULT_DOMAIN)}, {Pair(DEFAULT_RANGE)}, {NoAttrs})

NextInterp == EvalExpression

SpecInterp == InitInterp /\ [][NextInterp]_vars

\* C27: what an evaluation returns or raises is what the same call returns
\* or raises on an interpreter that has evaluated nothing before.
C27_NoStaleBindings ==
    last.op = "_eval_expression" =>
        LET alone == _eval_expression(last.arg.expression, last.arg.params,
                                      last.arg.x, last.arg.ind_var,
                                      last.arg.domain, last.arg.rng, NoBindings)
        IN last.err = alone.err /\ last.ret = alone.ret

-----------------------------------------------------------------------------
(* two calls of _eval_expression under way at once on the shared          *)
(* interpreter, each advancing one statement at a time                    *)

Threads == {1, 2}

EvalArgs ==
    [expression : {E_SCALE}, params : InterpParams,
     x : {Arr("float", 0, <<1>>), Arr("float", 0, <<MaxVal>>)},
     ind_var : {"x"}, domain : {Pair(<<0, MaxVal>>)}, rng : {Pair(<<0, MaxVal>>)}]

\* thread t is in no call
Free(t) == IF t \in DOMAIN evals THEN evals[t].pc = "done" ELSE TRUE

At(t, pc) == IF t \in DOMAIN evals THEN evals[t].pc = pc ELSE FALSE

\* thread t calls _eval_expression(a.expression, a.params, a.x): the checks
\* of lines 98-105 pass or raise at once
Begin(t) ==
    /\ Free(t)
    /\ \E a \in EvalArgs :
          /\ Binds(a.x, a.ind_var, a.domain, a.rng)
          /\ evals' = (t :> [pc |-> "bind_p", arg |-> a, y |-> <<>>, out |-> <<>>])
                          @@ evals
    /\ UNCHANGED <<fields, last, history, symtable, error, _calpoints, _coeffs>>

\* safe_eval.symtable["p"] = params
BindParams(t) ==
    /\ At(t, "bind_p")
    /\ symtable' = [symtable EXCEPT !.p = evals[t].arg.params]
    /\ evals' = [evals EXCEPT ![t].pc = "bind_var"]
    /\ UNCHANGED <<fields, last, history, error, _calpoints, _coeffs>>

\* safe_eval.symtable[ind_var] = x
BindVar(t) ==
    /\ At(t, "bind_var")
    /\ symtable' = Bind(symtable, symtable.p, evals[t].arg.ind_var,
                        Arr("ndarray", evals[t].arg.x.ndim, evals[t].arg.x.elems))
    /\ evals' = [evals EXCEPT ![t].pc = "eval"]
    /\ UNCHANGED <<fields, last, history, error, _calpoints, _coeffs>>

\* y = safe_eval(expression), with the table as it is now
Evaluate(t) ==
    /\ At(t, "eval")
    /\ LET y == safe_eval(evals[t].arg.expression, symtable)
       IN /\ error' = IF y.err THEN <<"error">> ELSE <<>>
          /\ evals' = [evals EXCEPT ![t].pc = "check", ![t].y = y]
    /\ UNCHANGED <<fields, last, history, symtable, _calpoints, _coeffs>>

\* if len(safe_eval.error) > 0: raise; the check for complex values, the
\* clip and the return.  y is None when the evaluation failed: if the list
\* has been emptied since, np.clip(None, ...) raises TypeError.
CheckErrors(t) ==
    /\ At(t, "check")
    /\ LET a == evals[t].arg
           y == evals[t].y
           out == IF Len(error) > 0 THEN Raise("CalibrationError")
                  ELSE IF y.err THEN Raise("TypeError")
                  ELSE IF ~(\A i \in 1..Len(y.im) : y.im[i] = 0)
                  THEN Raise("CalibrationError")
                  ELSE Ok(Arr("float", 0,
                              [i \in 1..Len(y.re) |->
                                  clip(y.re[i], Lo(a.rng), Hi(a.rng))]))
       IN /\ evals' = [evals EXCEPT ![t].pc = "done", ![t].out = out]
          /\ last' = [op |-> "_eval_expression", arg |-> a,
                      err |-> out.err, ret |-> out.ret]
    /\ UNCHANGED <<fields, history, symtable, error, _calpoints, _coeffs>>

NextThreads ==
    \/ \E t \in Threads : Begin(t)
    \/ \E t \in Threads : BindParams(t)
    \/ \E t \in Threads : BindVar(t)
    \/ \E t \in Threads : Evaluate(t)
    \/ \E t \in Threads : CheckErrors(t)

SpecThreads == InitInterp /\ [][NextThreads]_vars

\* C28: every evaluation that has finished has returned or raised what its
\* own expression, params and x give on an interpreter of its own.
C28_IsolatedEvaluations ==
    \A t \in DOMAIN evals :
        evals[t].pc = "done" =>
            LET a == evals[t].arg
                alone == _eval_expression(a.expression, a.params, a.x, a.ind_var,
                                          a.domain, a.rng, NoBindings)
            IN /\ evals[t].out.err = alone.err
               /\ alone.err = "none" => evals[t].out.ret = alone.ret

\* C29: _fit_expression given points within the domain and range it is
\* given never raises the error of a value outside the domain.
C29_FitHonoursDomain ==
    (last.op = "_fit_expression" /\ GoodPoints(last.arg)) =>
        ~(last.err = "CalibrationError" /\ last.ret \in DomainMessages)

-----------------------------------------------------------------------------
(* the inverse expression against params *)

\* C30: whenever inv_expression is set, every parameter index it references
\* is less than len(params).
C30_InverseIndicesInBounds ==
    inv_expression # None =>
        \A i \in IndexSet(inv_expression) : i < Len(params)

====
